---- MODULE Spec2Model ----
(***************************************************************************)
(* TerminalManager (src/backend/src/utils/TerminalManager.js): the         *)
(* registry of terminal sessions, its command interpreter (aliases, cd,    *)
(* clear), the pty process bridge and the port scanner, as a state         *)
(* machine.  JavaScript strings are TLA+ strings; node's posix path module *)
(* is modelled by the operators PathResolve, PathRelative and PathJoin.    *)
(***************************************************************************)
EXTENDS Integers, Sequences, FiniteSets, TLC

(***************************************************************************)
(* Bounds of the model.                                                    *)
(***************************************************************************)
\* session objects ever created (createSession allocations)
MaxObjs == 2
\* pty processes ever spawned
MaxProcs == 2
\* output chunks one process produces
MaxChunks == 2
\* fs.access callbacks in flight
MaxPendingCd == 1
\* fs.access callbacks in flight when directory changes race
MaxRacingCd == 2
\* scan timers and port scans (exec callbacks) in flight
MaxScans == 2
\* lines of a netstat output
MaxLines == 2
\* pieces of a chunk that carries window title sequences
MaxPieces == 5

NULL == 0

(***************************************************************************)
(* JavaScript string primitives.                                           *)
(***************************************************************************)
\* String.prototype.substring on 1-based inclusive indices, clipped to the string
Sub(s, i, j) ==
    IF i > j \/ i > Len(s) THEN "" ELSE SubSeq(s, i, IF j > Len(s) THEN Len(s) ELSE j)

\* String.prototype.charAt ("" outside the string)
CharAt(s, i) == Sub(s, i, i)

\* String.prototype.startsWith
StartsWith(s, p) == Len(p) <= Len(s) /\ Sub(s, 1, Len(p)) = p

\* String.prototype.endsWith
EndsWith(s, p) == Len(p) <= Len(s) /\ Sub(s, Len(s) - Len(p) + 1, Len(s)) = p

\* the characters \s matches (those a terminal line can carry)
IsSpace(c) == c \in {" ", "\t", "\n", "\r", "\f"}

RECURSIVE TrimLeft(_)
TrimLeft(s) ==
    IF s # "" /\ IsSpace(CharAt(s, 1)) THEN TrimLeft(Sub(s, 2, Len(s))) ELSE s

RECURSIVE TrimRight(_)
TrimRight(s) ==
    IF s # "" /\ IsSpace(CharAt(s, Len(s))) THEN TrimRight(Sub(s, 1, Len(s) - 1)) ELSE s

\* String.prototype.trim
Trim(s) == TrimRight(TrimLeft(s))

\* first index >= from at which character c occurs in s, 0 if none
RECURSIVE IndexOf(_, _, _)
IndexOf(s, c, from) ==
    IF from > Len(s) THEN 0
    ELSE IF SubSeq(s, from, from) = c THEN from
    ELSE IndexOf(s, c, from + 1)

\* String.prototype.split with a one-character separator
RECURSIVE Split(_, _)
Split(s, sep) ==
    LET j == IndexOf(s, sep, 1) IN
    IF j = 0 THEN <<s>>
    ELSE <<Sub(s, 1, j - 1)>> \o Split(Sub(s, j + 1, Len(s)), sep)

\* Array.prototype.join
RECURSIVE Join(_, _)
Join(parts, sep) ==
    IF parts = <<>> THEN ""
    ELSE IF Len(parts) = 1 THEN parts[1]
    ELSE parts[1] \o sep \o Join(Tail(parts), sep)

(***************************************************************************)
(* node's path module (posix).                                             *)
(***************************************************************************)
\* normalizeString: drop empty and "." segments, let ".." pop a segment
\* (at the root ".." stays at the root)
RECURSIVE NormSegs(_, _)
NormSegs(segs, acc) ==
    IF segs = <<>> THEN acc
    ELSE LET h == Head(segs) IN
         IF h = "" \/ h = "." THEN NormSegs(Tail(segs), acc)
         ELSE IF h = ".." THEN
              NormSegs(Tail(segs), IF acc = <<>> THEN acc ELSE SubSeq(acc, 1, Len(acc) - 1))
         ELSE NormSegs(Tail(segs), Append(acc, h))

\* the segments of an absolute path
Segs(p) == NormSegs(Split(p, "/"), <<>>)

AbsPath(segs) == "/" \o Join(segs, "/")

\* path.resolve(from, to) for an absolute `from`
PathResolve(from, to) ==
    IF StartsWith(to, "/") THEN AbsPath(Segs(to))
    ELSE AbsPath(NormSegs(Split(from \o "/" \o to, "/"), <<>>))

\* path.join(a, b, c) for an absolute a
PathJoin(a, b, c) == AbsPath(Segs(a \o "/" \o b \o "/" \o c))

RECURSIVE CommonLen(_, _)
CommonLen(a, b) ==
    IF a = <<>> \/ b = <<>> \/ Head(a) # Head(b) THEN 0
    ELSE 1 + CommonLen(Tail(a), Tail(b))

\* path.relative(from, to) for absolute paths
PathRelative(from, to) ==
    LET f == Segs(from)
        t == Segs(to)
        n == CommonLen(f, t)
    IN  Join([i \in 1..(Len(f) - n) |-> ".."] \o SubSeq(t, n + 1, Len(t)), "/")

(***************************************************************************)
(* Output Filter: filterOutput(data, session).                             *)
(***************************************************************************)
\* \x1b and \x07
ESC == ""
BEL == ""

UpperCase == {"A", "B", "C", "D", "E", "F", "G", "H", "I", "J", "K", "L", "M",
              "N", "O", "P", "Q", "R", "S", "T", "U", "V", "W", "X", "Y", "Z"}

\* the three patterns of the form  OPEN [^c]{min,} c
\*   banner: /Microsoft Windows \[Version [^\]]+\]/
\*   title:  /\x1b\]0;[^\x07]*\x07/
\*   prompt: /[A-Z]:\\[^>]+>/
PatOpen(kind) ==
    CASE kind = "banner" -> "Microsoft Windows [Version "
      [] kind = "title"  -> ESC \o "]0;"
      [] kind = "prompt" -> ":\\"

PatClose(kind) ==
    CASE kind = "banner" -> "]"
      [] kind = "title"  -> BEL
      [] kind = "prompt" -> ">"

PatMinInner(kind) == IF kind = "title" THEN 0 ELSE 1

\* index just after the opening part when it matches at i, 0 when it does not
OpenEnd(kind, s, i) ==
    IF kind = "prompt"
    THEN IF CharAt(s, i) \in UpperCase /\ Sub(s, i + 1, i + 2) = PatOpen(kind)
         THEN i + 3 ELSE 0
    ELSE IF Sub(s, i, i + Len(PatOpen(kind)) - 1) = PatOpen(kind)
         THEN i + Len(PatOpen(kind)) ELSE 0

\* index of the last character of the match that starts at i, 0 if no match
MatchEnd(kind, s, i) ==
    LET e == OpenEnd(kind, s, i)
        j == IF e = 0 THEN 0 ELSE IndexOf(s, PatClose(kind), e)
    IN  IF e # 0 /\ j # 0 /\ j - e >= PatMinInner(kind) THEN j ELSE 0

\* s.replace(/pattern/g, '')
RECURSIVE RemoveFrom(_, _, _)
RemoveFrom(kind, s, i) ==
    IF i > Len(s) THEN ""
    ELSE LET j == MatchEnd(kind, s, i) IN
         IF j # 0 THEN RemoveFrom(kind, s, j + 1)
         ELSE CharAt(s, i) \o RemoveFrom(kind, s, i + 1)

RemovePattern(kind, s) == RemoveFrom(kind, s, 1)

\* s.replace(/literal/g, '')
RECURSIVE RemoveLiteralFrom(_, _, _)
RemoveLiteralFrom(lit, s, i) ==
    IF i > Len(s) THEN ""
    ELSE IF Sub(s, i, i + Len(lit) - 1) = lit THEN RemoveLiteralFrom(lit, s, i + Len(lit))
    ELSE CharAt(s, i) \o RemoveLiteralFrom(lit, s, i + 1)

Copyright == "(c) Microsoft Corporation. All rights reserved."

\* the always-on step: remove ANSI window title sequences
StripTitle(s) == RemovePattern("title", s)

\* the first-chunk step
StripFirst(s) ==
    TrimLeft(RemovePattern("prompt",
             RemovePattern("title",
             RemoveLiteralFrom(Copyright, RemovePattern("banner", s), 1))))

\* a filter that treats every chunk as the first
FilterOutputAlways(data, initialOutputReceived) == StripTitle(StripFirst(data))

\* filterOutput: the cleaned data (the flag is set by the caller's state update)
FilterOutput(data, initialOutputReceived) ==
    StripTitle(IF ~initialOutputReceived THEN StripFirst(data) ELSE data)

(***************************************************************************)
(* Port Scanner: the parsing part of scanPorts.                            *)
(***************************************************************************)
Digits == {"0", "1", "2", "3", "4", "5", "6", "7", "8", "9"}

DigitVal(c) ==
    CASE c = "0" -> 0 [] c = "1" -> 1 [] c = "2" -> 2 [] c = "3" -> 3 [] c = "4" -> 4
      [] c = "5" -> 5 [] c = "6" -> 6 [] c = "7" -> 7 [] c = "8" -> 8 [] c = "9" -> 9

\* parseInt of a string of digits
RECURSIVE ParseInt(_, _)
ParseInt(s, acc) ==
    IF s = "" THEN acc ELSE ParseInt(Sub(s, 2, Len(s)), acc * 10 + DigitVal(CharAt(s, 1)))

\* index of the last digit of the maximal run of digits starting at i (i - 1 if none)
RECURSIVE DigitsEnd(_, _)
DigitsEnd(s, i) ==
    IF i <= Len(s) /\ CharAt(s, i) \in Digits THEN DigitsEnd(s, i + 1) ELSE i - 1

\* index of the last character of the maximal run of \s starting at i (i - 1 if none)
RECURSIVE SpaceEnd(_, _)
SpaceEnd(s, i) ==
    IF i <= Len(s) /\ IsSpace(CharAt(s, i)) THEN SpaceEnd(s, i + 1) ELSE i - 1

\* does lit occur in s at or after index from, with no line terminator before it
RECURSIVE OccursFrom(_, _, _)
OccursFrom(s, lit, from) ==
    IF from + Len(lit) - 1 > Len(s) THEN FALSE
    ELSE IF Sub(s, from, from + Len(lit) - 1) = lit THEN TRUE
    ELSE IF CharAt(s, from) \in {"\n", "\r"} THEN FALSE
    ELSE OccursFrom(s, lit, from + 1)

\* line.match(/:(\d+)\s+.*LISTENING/): the port of the leftmost match, -1 if none
RECURSIVE MatchPort(_, _)
MatchPort(line, i) ==
    IF i > Len(line) THEN -1
    ELSE LET e == DigitsEnd(line, i + 1) IN
         IF /\ CharAt(line, i) = ":"
            /\ e >= i + 1
            /\ SpaceEnd(line, e + 1) >= e + 1
            /\ OccursFrom(line, "LISTENING", SpaceEnd(line, e + 1) + 1)
         THEN ParseInt(Sub(line, i + 1, e), 0)
         ELSE MatchPort(line, i + 1)

LowPortLimit == 1024
IdePortA == 3000
IdePortB == 3001

\* a port filter that keeps the threshold itself
KeepPortInclusive(port) == port >= LowPortLimit /\ port # IdePortA /\ port # IdePortB

\* port > 1024 && port !== 3000 && port !== 3001
KeepPort(port) == port > LowPortLimit /\ port # IdePortA /\ port # IdePortB

\* the ports kept from stdout, in insertion order without duplicates
RECURSIVE PortsOf(_, _)
PortsOf(lines, acc) ==
    IF lines = <<>> THEN acc
    ELSE LET port == MatchPort(Head(lines), 1)
             keep == /\ port # -1
                     /\ KeepPort(port)
                     /\ \A k \in 1..Len(acc) : acc[k] # port
         IN  PortsOf(Tail(lines), IF keep THEN Append(acc, port) ELSE acc)

ParsePorts(stdout) == PortsOf(Split(stdout, "\n"), <<>>)

(***************************************************************************)
(* The environment: client identities, the host's directories, the inputs. *)
(***************************************************************************)
SocketIds == {"s1", "s2"}

\* the userId the transport passes to createSession for a connection
UserOf(sid) == IF sid = "s1" THEN "bob" ELSE "bob2"

\* os.tmpdir() and os.homedir()
TmpDir == "/tmp"
HomeDir == "/home/dev"

WorkspaceDir == "teachgrid-workspace"

\* a path and the directories above it (fs.mkdirSync(root, { recursive: true }))
WithAncestors(path) ==
    LET segs == Segs(path) IN {AbsPath(SubSeq(segs, 1, k)) : k \in 0..Len(segs)}

\* directories of the host outside the workspaces
HostDirs == {"/", "/etc", "/tmp", "/home", HomeDir}

\* workspace trees restored to disk by the storage service before any session
RestoredDirs ==
    UNION {WithAncestors(d) : d \in {"/tmp/teachgrid-workspace/bob/a/b/c",
                                     "/tmp/teachgrid-workspace/bob/etc",
                                     "/tmp/teachgrid-workspace/anonymous/a/b",
                                     "/tmp/teachgrid-workspace/anonymous/b",
                                     "/tmp/teachgrid-workspace/bob2/a"}}

\* package.json in the directories a terminal of the shared workspace visits
ManifestName == "package.json"

ManifestPaths ==
    {"/tmp/teachgrid-workspace/anonymous/package.json",
     "/tmp/teachgrid-workspace/anonymous/a/package.json"}

\* a path without a file, a file that cannot be read, a file with a text
NoFile == [exists |-> FALSE, readable |-> FALSE, text |-> ""]
LockedFile == [exists |-> TRUE, readable |-> FALSE, text |-> ""]
TextFile(text) == [exists |-> TRUE, readable |-> TRUE, text |-> text]

\* manifest texts: dev only, start and dev, start only, neither, no scripts,
\* an empty start script beside dev, an empty dev script, the value null, and
\* a text that is not JSON
DevOnlyText == "{\"scripts\":{\"dev\":\"vite\"}}"
BothText == "{\"scripts\":{\"start\":\"node .\",\"dev\":\"vite\"}}"
StartOnlyText == "{\"scripts\":{\"start\":\"node .\"}}"
NeitherText == "{\"scripts\":{\"build\":\"tsc\"}}"
NoScriptsText == "{\"name\":\"app\"}"
EmptyStartText == "{\"scripts\":{\"start\":\"\",\"dev\":\"vite\"}}"
EmptyDevText == "{\"scripts\":{\"dev\":\"\"}}"
NullText == "null"
BrokenText == "{\"scripts\":{\"dev\":"

ManifestTexts ==
    {DevOnlyText, BothText, StartOnlyText, NeitherText, NoScriptsText, EmptyStartText,
     EmptyDevText, NullText, BrokenText}

\* values of JSON.parse: a SyntaxError, null, or an object with or without a
\* scripts object (its entries by name)
SyntaxError == [ok |-> FALSE, isNull |-> FALSE, hasScripts |-> FALSE, scripts |-> <<>>]
JsonNull == [ok |-> TRUE, isNull |-> TRUE, hasScripts |-> FALSE, scripts |-> <<>>]
JsonPlain == [ok |-> TRUE, isNull |-> FALSE, hasScripts |-> FALSE, scripts |-> <<>>]
JsonPkg(scripts) == [ok |-> TRUE, isNull |-> FALSE, hasScripts |-> TRUE, scripts |-> scripts]

\* JSON.parse on the manifest texts
JsonParse(text) ==
    CASE text = DevOnlyText -> JsonPkg("dev" :> "vite")
      [] text = BothText -> JsonPkg(("start" :> "node .") @@ ("dev" :> "vite"))
      [] text = StartOnlyText -> JsonPkg("start" :> "node .")
      [] text = NeitherText -> JsonPkg("build" :> "tsc")
      [] text = NoScriptsText -> JsonPlain
      [] text = EmptyStartText -> JsonPkg(("start" :> "") @@ ("dev" :> "vite"))
      [] text = EmptyDevText -> JsonPkg("dev" :> "")
      [] text = NullText -> JsonNull
      [] OTHER -> SyntaxError

\* fs.existsSync and the file behind a path
FileAt(disk, path) == IF path \in DOMAIN disk THEN disk[path] ELSE NoFile

(***************************************************************************)
(* State.                                                                  *)
(***************************************************************************)
VARIABLES
    sessions,   \* this.sessions: socketId -> session object (NULL: no entry)
    objs,       \* the session objects ever allocated: cwd, projectRoot, pty, initialOutputReceived
    procs,      \* the pty processes ever spawned, with the closures of their callbacks
    pendingCd,  \* fs.access callbacks in flight
    timers,     \* setTimeout(scanPorts, 2000) timers not yet fired
    scans,      \* exec callbacks of scanPorts in flight
    dirs,       \* the paths fs.access succeeds on
    files,      \* the package manifests on disk, by path
    client,     \* what each client was last told: busy status, cwd, port list
    emitted,    \* the socket events emitted by the last step, in order
    calls,      \* the pty and fs calls made by the last step, in order
    last,       \* the operation the last step performed
    serial,     \* history: per session object, the cwd its cd commands give when
                \* each one completes before the next line is dispatched
    latest,     \* history: per client, the outcome of the scan started last
    table,      \* the rows of workspace_files: user_id, path, name, content, is_dir
    bucket      \* the objects of the storage bucket 'workspace': key, body

vars ==
    <<sessions, objs, procs, pendingCd, timers, scans, dirs, files, client, emitted, calls,
      last, serial, latest, table, bucket>>

\* the state as one record, with the per-step logs empty
World ==
    [sessions |-> sessions, objs |-> objs, procs |-> procs, pendingCd |-> pendingCd,
     timers |-> timers, scans |-> scans, dirs |-> dirs, files |-> files, client |-> client,
     emitted |-> <<>>, calls |-> <<>>]

(***************************************************************************)
(* Socket events and external calls.                                       *)
(***************************************************************************)
OutputEv(sock, text) ==
    [sock |-> sock, ev |-> "output", text |-> text, busy |-> FALSE, ports |-> <<>>]

CwdEv(sock, rel) ==
    [sock |-> sock, ev |-> "terminal:cwd", text |-> rel, busy |-> FALSE, ports |-> <<>>]

StatusEv(sock, busy) ==
    [sock |-> sock, ev |-> "terminal:status", text |-> "", busy |-> busy, ports |-> <<>>]

PortsEv(sock, ports) ==
    [sock |-> sock, ev |-> "terminal:ports", text |-> "", busy |-> FALSE, ports |-> ports]

\* the client's view after receiving an event
ClientAfter(c, e) ==
    CASE e.ev = "terminal:status" -> [c EXCEPT !.busy = e.busy]
      [] e.ev = "terminal:cwd"    -> [c EXCEPT !.cwd = e.text]
      [] e.ev = "terminal:ports"  -> [c EXCEPT !.ports = e.ports]
      [] OTHER                    -> c

\* socket.emit
Emit(w, e) ==
    [w EXCEPT !.emitted = Append(@, e), !.client[e.sock] = ClientAfter(@, e)]

\* socket.emit from a callback or the spawn of process p
EmitFrom(w, p, e) == Emit([w EXCEPT !.procs[p].out = Append(@, e)], e)

Call(w, fn, proc, arg) ==
    [w EXCEPT !.calls = Append(@, [fn |-> fn, proc |-> proc, arg |-> arg])]

DeniedMsg ==
    "Error: Access denied (Sandbox Restriction). Cannot navigate outside project root.\r\n"

NoSuchMsg(targetDir) == "cd: no such file or directory: " \o targetDir \o "\r\n"

ClearSeq == ESC \o "[2J" \o ESC \o "[0f"

SpawnFailMsg == "Failed to execute: spawn failed\r\n"

(***************************************************************************)
(* createSession(socketId, socket, userId); userId "" is undefined.        *)
(***************************************************************************)
SessionRoot(userId) ==
    PathJoin(TmpDir, WorkspaceDir, IF userId = "" THEN "anonymous" ELSE userId)

\* a createSession that allocates a session on every request
DoCreateSessionAlways(w, sid, userId) ==
    Emit([w EXCEPT !.dirs = @ \cup WithAncestors(SessionRoot(userId)),
                   !.objs = Append(@, [cwd |-> SessionRoot(userId),
                                       projectRoot |-> SessionRoot(userId),
                                       pty |-> NULL, initialOutputReceived |-> FALSE,
                                       sock |-> sid]),
                   !.sessions[sid] = Len(w.objs) + 1],
         CwdEv(sid, ""))

DoCreateSession(w, sid, userId) ==
    IF w.sessions[sid] # NULL THEN w
    ELSE LET root == SessionRoot(userId)
             o == Len(w.objs) + 1
             w1 == [w EXCEPT !.dirs = @ \cup WithAncestors(root),
                             !.objs = Append(@, [cwd |-> root, projectRoot |-> root,
                                                 pty |-> NULL,
                                                 initialOutputReceived |-> FALSE,
                                                 sock |-> sid]),
                             !.sessions[sid] = o]
         IN  Emit(w1, CwdEv(sid, ""))

(***************************************************************************)
(* write(socketId, data), resize(socketId, cols, rows), kill(socketId).    *)
(***************************************************************************)
\* a write that forwards the trimmed line
DoWriteTrimmed(w, sid, data) ==
    LET o == w.sessions[sid] IN
    IF o # NULL /\ w.objs[o].pty # NULL
    THEN Call(w, "pty.write", w.objs[o].pty, Trim(data))
    ELSE w

DoWrite(w, sid, data) ==
    LET o == w.sessions[sid] IN
    IF o # NULL /\ w.objs[o].pty # NULL
    THEN Call(w, "pty.write", w.objs[o].pty, data)
    ELSE w

DoResize(w, sid, size) ==
    LET o == w.sessions[sid] IN
    IF o # NULL /\ w.objs[o].pty # NULL
    THEN Call(w, "pty.resize", w.objs[o].pty, size)
    ELSE w

\* a kill that empties the registry
DoKillAll(w, sid) ==
    LET o == w.sessions[sid] IN
    IF o = NULL THEN w
    ELSE LET p == w.objs[o].pty
             w1 == IF p # NULL
                   THEN Call([w EXCEPT !.procs[p].killed = TRUE], "pty.kill", p, "")
                   ELSE w
         IN  [w1 EXCEPT !.sessions = [b \in SocketIds |-> NULL]]

\* a kill that leaves the session registered
DoKillKeep(w, sid) ==
    LET o == w.sessions[sid] IN
    IF o = NULL \/ w.objs[o].pty = NULL THEN w
    ELSE Call([w EXCEPT !.procs[w.objs[o].pty].killed = TRUE], "pty.kill", w.objs[o].pty, "")

DoKill(w, sid) ==
    LET o == w.sessions[sid] IN
    IF o = NULL THEN w
    ELSE LET p == w.objs[o].pty
             w1 == IF p # NULL
                   THEN Call([w EXCEPT !.procs[p].killed = TRUE], "pty.kill", p, "")
                   ELSE w
         IN  [w1 EXCEPT !.sessions[sid] = NULL]

(***************************************************************************)
(* execute(socketId, command, socket): the Command Interpreter.            *)
(***************************************************************************)
Aliases ==
    [ls |-> "dir /b", dir |-> "dir /b", ll |-> "dir", cat |-> "type",
     rm |-> "del", clear |-> "cls", pwd |-> "echo %cd%"]

\* aliases is an object literal: aliases[key] also finds what every object
\* inherits from Object.prototype, here as the text parts.join(' ') gives it
ObjectPrototype ==
    ("constructor" :> "function Object() { [native code] }")
    @@ ("toString" :> "function toString() { [native code] }")
    @@ ("valueOf" :> "function valueOf() { [native code] }")
    @@ ("__proto__" :> "[object Object]")

\* aliases[key] for every key with a truthy value
AliasObject == Aliases @@ ObjectPrototype

\* alias resolution on the trimmed command
AliasParts(trimmedCmd, parts) ==
    IF parts[1] \in DOMAIN AliasObject
    THEN Join([parts EXCEPT ![1] = AliasObject[parts[1]]], " ")
    ELSE trimmedCmd

AliasStep(trimmedCmd) == AliasParts(trimmedCmd, Split(trimmedCmd, " "))

IsCd(trimmedCmd) == StartsWith(trimmedCmd, "cd ") \/ trimmedCmd = "cd"

\* the directory argument of a cd command, quotes stripped
CdTarget(trimmedCmd) ==
    LET args == Tail(Split(trimmedCmd, " "))
        raw == IF args = <<>> \/ args[1] = "" THEN HomeDir ELSE args[1]
    IN  IF StartsWith(raw, "\"") /\ EndsWith(raw, "\"")
        THEN Sub(raw, 2, Len(raw) - 1)
        ELSE raw

\* a sandbox check that compares against the shared temporary root
InSandboxTmp(newPath, projectRoot) == StartsWith(newPath, TmpDir)

\* a sandbox check left to the later existence check
InSandboxSkipped(newPath, projectRoot) == TRUE

\* SANDBOX CHECK: newPath.startsWith(session.projectRoot)
InSandbox(newPath, projectRoot) == StartsWith(newPath, projectRoot)

\* the cd built-in once the target is resolved: deny, or start the
\* asynchronous fs.access
CdResolved(w, sid, o, targetDir, newPath) ==
    IF ~InSandbox(newPath, w.objs[o].projectRoot)
    THEN Emit(w, OutputEv(sid, DeniedMsg))
    ELSE Call([w EXCEPT !.pendingCd =
                   Append(@, [obj |-> o, sock |-> sid, newPath |-> newPath,
                              targetDir |-> targetDir])],
              "fs.access", NULL, newPath)

\* newPath = path.resolve(session.cwd, targetDir), then the check on it
CdAt(w, sid, o, targetDir, newPath) ==
    CdResolved(Call(w, "path.resolve", NULL, newPath), sid, o, targetDir, newPath)

CdTo(w, sid, o, targetDir) ==
    CdAt(w, sid, o, targetDir, PathResolve(w.objs[o].cwd, targetDir))

DoCd(w, sid, o, trimmedCmd) == CdTo(w, sid, o, CdTarget(trimmedCmd))

\* scanPorts(socket, session): start the enumeration command
DoScanPorts(w, sock) ==
    Call([w EXCEPT !.scans = Append(@, [sock |-> sock])], "exec", NULL, "")

\* the process record of a spawned pty: its session object and socket (the
\* closure of its callbacks), its command and cwd, what it printed (produced),
\* how much of that onData has handled (ndeliv) and what was emitted for it (out)
NewProc(w, sid, o, trimmedCmd) ==
    [obj |-> o, sock |-> sid, cmd |-> trimmedCmd, cwd |-> w.objs[o].cwd,
     state |-> "running", killed |-> FALSE, produced |-> <<>>, ndeliv |-> 0, out |-> <<>>]

\* a spawn that schedules no delayed scan
AttachNoTimer(w, sid, o, p, trimmedCmd) ==
    EmitFrom(Call([w EXCEPT !.procs = Append(@, NewProc(w, sid, o, trimmedCmd)),
                            !.objs[o].pty = p,
                            !.objs[o].initialOutputReceived = FALSE],
                  "pty.spawn", p, trimmedCmd),
             p, StatusEv(sid, TRUE))

\* a spawn that attaches the process without announcing the busy status
AttachQuiet(w, sid, o, p, trimmedCmd) ==
    Call([w EXCEPT !.procs = Append(@, NewProc(w, sid, o, trimmedCmd)),
                   !.objs[o].pty = p,
                   !.objs[o].initialOutputReceived = FALSE,
                   !.timers = Append(@, sid)],
         "pty.spawn", p, trimmedCmd)

\* after a successful pty.spawn: attach, reset the flag, announce busy, register
\* the callbacks and schedule the delayed scan
Attach(w, sid, o, p, trimmedCmd) ==
    EmitFrom(Call([w EXCEPT !.procs = Append(@, NewProc(w, sid, o, trimmedCmd)),
                            !.objs[o].pty = p,
                            !.objs[o].initialOutputReceived = FALSE,
                            !.timers = Append(@, sid)],
                  "pty.spawn", p, trimmedCmd),
             p, StatusEv(sid, TRUE))

\* a spawn that schedules the delayed scan before it calls pty.spawn
DoSpawnTimerFirst(w, sid, o, trimmedCmd, spawnOk) ==
    IF ~spawnOk
    THEN Emit(Call([w EXCEPT !.timers = Append(@, sid)], "pty.spawn", NULL, trimmedCmd),
              OutputEv(sid, SpawnFailMsg))
    ELSE Attach(w, sid, o, Len(w.procs) + 1, trimmedCmd)

\* pty.spawn in its try block; spawnOk = FALSE: pty.spawn throws
DoSpawn(w, sid, o, trimmedCmd, spawnOk) ==
    IF ~spawnOk
    THEN Emit(Call(w, "pty.spawn", NULL, trimmedCmd), OutputEv(sid, SpawnFailMsg))
    ELSE Attach(w, sid, o, Len(w.procs) + 1, trimmedCmd)

\* an interpreter without the clear built-in
RunCommandNoClear(w, sid, o, trimmedCmd, spawnOk) ==
    IF IsCd(trimmedCmd) THEN DoCd(w, sid, o, trimmedCmd)
    ELSE DoSpawn(w, sid, o, trimmedCmd, spawnOk)

\* the command after alias resolution: cd, clear or a process
RunCommand(w, sid, o, trimmedCmd, spawnOk) ==
    IF IsCd(trimmedCmd) THEN DoCd(w, sid, o, trimmedCmd)
    ELSE IF trimmedCmd = "cls" \/ trimmedCmd = "clear"
         THEN Emit(w, OutputEv(sid, ClearSeq))
    ELSE DoSpawn(w, sid, o, trimmedCmd, spawnOk)

\* the light bulb sign U+1F4A1 that opens the notice, spelled out
Bulb == "U+1F4A1"

NpmNotice ==
    Bulb \o " Intelligence: No 'start' script found. Redirecting to 'npm run dev'...\r\n"

\* pkg.scripts[name] is truthy: the script is there and is not the empty string
HasScript(pkg, name) == name \in DOMAIN pkg.scripts /\ pkg.scripts[name] # ""

\* a test that redirects whenever there is a dev script
DevScriptOnly(pkg) == pkg.hasScripts /\ HasScript(pkg, "dev")

\* pkg.scripts && !pkg.scripts.start && pkg.scripts.dev
WantsDev(pkg) == pkg.hasScripts /\ ~HasScript(pkg, "start") /\ HasScript(pkg, "dev")

\* the try block throws: readFileSync on an unreadable file, JSON.parse on a
\* text that is not JSON, pkg.scripts on null
ManifestThrows(file) ==
    \/ ~file.readable
    \/ ~JsonParse(file.text).ok
    \/ JsonParse(file.text).isNull

\* a handler that reports the error of the manifest to the client
ReportError(w, sid) == Emit(w, OutputEv(sid, "Failed to read package.json\r\n"))

\* catch (e) { }: parsing errors are ignored
IgnoreError(w, sid) == w

\* the Smart Command Interceptor on the manifest at cwd
Intercept(w, sid, o, file, spawnOk) ==
    IF ~file.exists THEN RunCommand(w, sid, o, "npm start", spawnOk)
    ELSE IF ManifestThrows(file)
         THEN RunCommand(IgnoreError(w, sid), sid, o, "npm start", spawnOk)
    ELSE IF WantsDev(JsonParse(file.text))
         THEN RunCommand(Emit(w, OutputEv(sid, NpmNotice)), sid, o, "npm run dev", spawnOk)
    ELSE RunCommand(w, sid, o, "npm start", spawnOk)

\* the command after alias resolution
Intercepted(w, sid, o, trimmedCmd, spawnOk) ==
    IF trimmedCmd = "npm start"
    THEN Intercept(w, sid, o, FileAt(w.files, PathJoin(w.objs[o].cwd, ManifestName, "")),
                   spawnOk)
    ELSE RunCommand(w, sid, o, trimmedCmd, spawnOk)

\* the trimmed line: nothing when empty
Interpret(w, sid, trimmed, spawnOk) ==
    IF trimmed = "" THEN w
    ELSE Intercepted(w, sid, w.sessions[sid], AliasStep(trimmed), spawnOk)

DoExecute(w0, sid, command, spawnOk) ==
    Interpret(DoCreateSession(w0, sid, ""), sid, Trim(command), spawnOk)

(***************************************************************************)
(* handleInput(socketId, data, socket): the dispatch rule.                 *)
(***************************************************************************)
\* a dispatch that always interprets the line
RouteNever(session) == FALSE

\* session.pty is truthy: route to write, else to execute
RouteToWrite(session) == session.pty # NULL

Dispatch(w, sid, data, spawnOk) ==
    IF RouteToWrite(w.objs[w.sessions[sid]])
    THEN DoWrite(w, sid, data)
    ELSE DoExecute(w, sid, data, spawnOk)

DoHandleInput(w0, sid, data, spawnOk) ==
    Dispatch(DoCreateSession(w0, sid, ""), sid, data, spawnOk)

(***************************************************************************)
(* Callbacks: fs.access, ptyProcess.onData, ptyProcess.onExit, the         *)
(* setTimeout scan and the exec callback of scanPorts.                     *)
(***************************************************************************)
RemoveAt(seq, i) == SubSeq(seq, 1, i - 1) \o SubSeq(seq, i + 1, Len(seq))

\* an fs.access callback that moves the session whatever the outcome
DoCdDoneMoves(w, i) ==
    LET c == w.pendingCd[i]
        w1 == [w EXCEPT !.pendingCd = RemoveAt(@, i), !.objs[c.obj].cwd = c.newPath]
    IN  IF c.newPath \notin w.dirs
        THEN Emit(w1, OutputEv(c.sock, NoSuchMsg(c.targetDir)))
        ELSE Emit(w1, CwdEv(c.sock, PathRelative(w.objs[c.obj].projectRoot, c.newPath)))

\* an fs.access callback that reports the resolved path as it is
DoCdDoneAbsolute(w, i) ==
    LET c == w.pendingCd[i]
        w1 == [w EXCEPT !.pendingCd = RemoveAt(@, i)]
    IN  IF c.newPath \notin w.dirs
        THEN Emit(w1, OutputEv(c.sock, NoSuchMsg(c.targetDir)))
        ELSE Emit([w1 EXCEPT !.objs[c.obj].cwd = c.newPath], CwdEv(c.sock, c.newPath))

DoCdDone(w, i) ==
    LET c == w.pendingCd[i]
        w1 == [w EXCEPT !.pendingCd = RemoveAt(@, i)]
    IN  IF c.newPath \notin w.dirs
        THEN Emit(w1, OutputEv(c.sock, NoSuchMsg(c.targetDir)))
        ELSE Emit([w1 EXCEPT !.objs[c.obj].cwd = c.newPath],
                  CwdEv(c.sock, PathRelative(w.objs[c.obj].projectRoot, c.newPath)))

\* one socket for the callbacks of every process
ProcSocketShared(pr) == "s1"

\* the socket the callbacks of a process emit to
ProcSocket(pr) == pr.sock

Deliver(w, p, pr, cleaned) ==
    IF cleaned # "" THEN EmitFrom(w, p, OutputEv(ProcSocket(pr), cleaned)) ELSE w

DoOnData(w, p) ==
    Deliver([w EXCEPT !.procs[p].ndeliv = @ + 1,
                      !.objs[w.procs[p].obj].initialOutputReceived = TRUE],
            p, w.procs[p],
            FilterOutput(w.procs[p].produced[w.procs[p].ndeliv + 1],
                         w.objs[w.procs[p].obj].initialOutputReceived))

\* node-pty emits exit once the process is gone and its output is flushed
ExitReady(pr) == pr.state = "exited" /\ pr.ndeliv = Len(pr.produced)

\* an exit callback that looks its session up by socket id
DoOnExitBySocket(w, p) ==
    LET o == w.sessions[w.procs[p].sock]
        w1 == [w EXCEPT !.procs[p].state = "closed"]
        w2 == IF o # NULL THEN [w1 EXCEPT !.objs[o].pty = NULL] ELSE w1
    IN  DoScanPorts(EmitFrom(w2, p, StatusEv(ProcSocket(w.procs[p]), FALSE)),
                    ProcSocket(w.procs[p]))

\* an exit callback that leaves the handle of the exited process in place
DoOnExitKeep(w, p) ==
    DoScanPorts(EmitFrom([w EXCEPT !.procs[p].state = "closed"],
                         p, StatusEv(ProcSocket(w.procs[p]), FALSE)),
                ProcSocket(w.procs[p]))

DoOnExit(w, p) ==
    DoScanPorts(EmitFrom([w EXCEPT !.procs[p].state = "closed",
                                   !.objs[w.procs[p].obj].pty = NULL],
                         p, StatusEv(ProcSocket(w.procs[p]), FALSE)),
                ProcSocket(w.procs[p]))

DoTimer(w) == DoScanPorts([w EXCEPT !.timers = Tail(@)], Head(w.timers))

\* the exec callback: res.error, res.stdout
DoScanDone(w, i, res) ==
    LET w1 == [w EXCEPT !.scans = RemoveAt(@, i)] IN
    IF res.error THEN w1
    ELSE Emit(w1, PortsEv(w.scans[i].sock, ParsePorts(res.stdout)))

(***************************************************************************)
(* Inputs of the environment.                                              *)
(***************************************************************************)
\* directory changes a client submits
CdInputs == {"cd a/b/c", "cd \"a\"", "cd ..", "cd ../bob2", "cd ../../../etc", "cd"}

\* lines submitted back to back
RaceInputs == {"cd a", "cd b", " ls -la\n"}

\* lines a client submits while processes come and go
Inputs == {" ls -la\n", "clear"}

\* the output a command prints for a client, chunk by chunk: a banner and
\* prompt that filter to nothing, a title before text with a prompt path, plain text
Script(sid) ==
    IF sid = "s1"
    THEN <<"Microsoft Windows [Version 10.0.1]\r\nC:\\ws>",
           ESC \o "]0;ls" \o BEL \o " C:\\ws>a.txt\r\n", "C:\\ws>b.txt", "\r\nc.txt">>
    ELSE <<" D:\\x>1\r\n", ESC \o "]0;t" \o BEL, " 2 ", "3">>

Sizes == {"120x40"}

\* outcomes of the enumeration command of scanPorts
ScanError == [error |-> TRUE, stdout |-> ""]

ScanListing ==
    [error |-> FALSE,
     stdout |-> " TCP 0.0.0.0:5173 0.0.0.0:0 LISTENING 41\r\n TCP [::]:3000 [::]:0 LISTENING 7\r\n"]

(***************************************************************************)
(* Initial state and actions.                                              *)
(***************************************************************************)
\* the scan started last for a client: whether its exec callback has run, and
\* the list it sent if the command succeeded
NoScan == [done |-> TRUE, ok |-> FALSE, ports |-> <<>>]

NoOp == [op |-> "init", sid |-> "", data |-> "", proc |-> NULL]

\* nothing registered yet; D: the directory trees the host may start with
InitOf(D) ==
    /\ sessions = [sid \in SocketIds |-> NULL]
    /\ objs = <<>>
    /\ procs = <<>>
    /\ pendingCd = <<>>
    /\ timers = <<>>
    /\ scans = <<>>
    /\ dirs \in D
    /\ files = [path \in ManifestPaths |-> NoFile]
    /\ client = [sid \in SocketIds |-> [busy |-> FALSE, cwd |-> "", ports |-> <<>>]]
    /\ emitted = <<>>
    /\ calls = <<>>
    /\ last = NoOp
    /\ serial = <<>>
    /\ latest = [sid \in SocketIds |-> NoScan]
    /\ table = {}
    /\ bucket = {}

Init == InitOf({HostDirs \cup RestoredDirs})

\* serial after the step op from the current state to world w: a new session
\* object starts at its root, and a cd line the interpreter receives moves it
\* when the target is inside the sandbox and accessible
SerialBase(w) ==
    [o \in 1..Len(w.objs) |-> IF o <= Len(serial) THEN serial[o] ELSE w.objs[o].projectRoot]

SerialMove(w, o, base, target) ==
    IF InSandbox(target, w.objs[o].projectRoot) /\ target \in w.dirs
    THEN [base EXCEPT ![o] = target]
    ELSE base

\* the serial target of the cd line op, whose path.resolve call the step logged
SerialTarget(w, o, base, op) ==
    IF base[o] = w.objs[o].cwd THEN w.calls[1].arg
    ELSE PathResolve(base[o], CdTarget(AliasStep(Trim(op.data))))

SerialCd(w, o, base, op) == SerialMove(w, o, base, SerialTarget(w, o, base, op))

SerialNext(w, op) ==
    IF op.op = "handleInput" /\ w.calls # <<>> /\ w.calls[1].fn = "path.resolve"
    THEN SerialCd(w, w.sessions[op.sid], SerialBase(w), op)
    ELSE SerialBase(w)

\* latest after a step to world w that completes no scan: a scan the step
\* starts is the newest of its client, and its callback has not run
LatestStarted(w) ==
    IF Len(w.scans) > Len(scans)
    THEN [latest EXCEPT ![w.scans[Len(w.scans)].sock] = [done |-> FALSE, ok |-> FALSE, ports |-> <<>>]]
    ELSE latest

\* latest after the callback of scan i ran with res: scans are kept in start
\* order, so scan i is the newest of its client when none follows it and the
\* newest has not completed before
LatestDone(i, res) ==
    IF /\ ~latest[scans[i].sock].done
       /\ \A j \in (i + 1)..Len(scans) : scans[j].sock # scans[i].sock
    THEN [latest EXCEPT ![scans[i].sock] =
              [done |-> TRUE, ok |-> ~res.error,
               ports |-> IF res.error THEN <<>> ELSE ParsePorts(res.stdout)]]
    ELSE latest

\* the step to world next, within the bounds of the model
StepWith(next, op, lat) ==
    \E w \in {next} :
        /\ Len(w.objs) <= MaxObjs
        /\ Len(w.procs) <= MaxProcs
        /\ Len(w.pendingCd) <= MaxRacingCd
        /\ Len(w.timers) + Len(w.scans) <= MaxScans
        /\ sessions' = w.sessions
        /\ objs' = w.objs
        /\ procs' = w.procs
        /\ pendingCd' = w.pendingCd
        /\ timers' = w.timers
        /\ scans' = w.scans
        /\ dirs' = w.dirs
        /\ files' = w.files
        /\ client' = w.client
        /\ emitted' = w.emitted
        /\ calls' = w.calls
        /\ last' = op
        /\ serial' = SerialNext(w, op)
        /\ latest' = lat
        /\ UNCHANGED <<table, bucket>>

Step(next, op) == StepWith(next, op, LatestStarted(next))

CreateSession(sid, userId) ==
    Step(DoCreateSession(World, sid, userId),
         [op |-> "createSession", sid |-> sid, data |-> userId, proc |-> NULL])

HandleInput(sid, data, spawnOk) ==
    Step(DoHandleInput(World, sid, data, spawnOk),
         [op |-> "handleInput", sid |-> sid, data |-> data, proc |-> NULL])

Resize(sid, size) ==
    Step(DoResize(World, sid, size),
         [op |-> "resize", sid |-> sid, data |-> size, proc |-> NULL])

Kill(sid) ==
    Step(DoKill(World, sid), [op |-> "kill", sid |-> sid, data |-> "", proc |-> NULL])

CdDone(i) ==
    /\ i \in 1..Len(pendingCd)
    /\ Step(DoCdDone(World, i),
            [op |-> "cdDone", sid |-> pendingCd[i].sock, data |-> pendingCd[i].newPath,
             proc |-> NULL])

\* the process writes its next chunk to its terminal
ProcProduce(p) ==
    /\ p \in 1..Len(procs)
    /\ procs[p].state = "running"
    /\ Len(procs[p].produced) < MaxChunks
    /\ \E chunk \in {Script(procs[p].sock)[Len(procs[p].produced) + 1]} :
          Step([World EXCEPT !.procs[p].produced = Append(@, chunk)],
               [op |-> "produce", sid |-> procs[p].sock, data |-> chunk, proc |-> p])

OnData(p) ==
    /\ p \in 1..Len(procs)
    /\ procs[p].ndeliv < Len(procs[p].produced)
    /\ Step(DoOnData(World, p),
            [op |-> "onData", sid |-> procs[p].sock,
             data |-> procs[p].produced[procs[p].ndeliv + 1], proc |-> p])

\* the process ends, by itself or by the signal of pty.kill
ProcExit(p) ==
    /\ p \in 1..Len(procs)
    /\ procs[p].state = "running"
    /\ Step([World EXCEPT !.procs[p].state = "exited"],
            [op |-> "exit", sid |-> procs[p].sock, data |-> "", proc |-> p])

OnExit(p) ==
    /\ p \in 1..Len(procs)
    /\ ExitReady(procs[p])
    /\ Step(DoOnExit(World, p),
            [op |-> "onExit", sid |-> procs[p].sock, data |-> "", proc |-> p])

TimerFire ==
    /\ timers # <<>>
    /\ Step(DoTimer(World), [op |-> "timer", sid |-> Head(timers), data |-> "", proc |-> NULL])

ScanDone(i, res) ==
    /\ i \in 1..Len(scans)
    /\ StepWith(DoScanDone(World, i, res),
                [op |-> IF res.error THEN "scanFailed" ELSE "scanDone", sid |-> scans[i].sock,
                 data |-> res.stdout, proc |-> NULL],
                LatestDone(i, res))

\* one client without a user id: session creation, input, kill and the life of
\* its processes
Next ==
    \/ CreateSession("s1", "")
    \/ \E data \in Inputs, spawnOk \in BOOLEAN : HandleInput("s1", data, spawnOk)
    \/ Kill("s1")
    \/ \E p \in 1..MaxProcs : ProcExit(p)
    \/ \E p \in 1..MaxProcs : OnExit(p)
    \/ TimerFire
    \/ \E i \in 1..MaxScans : ScanDone(i, ScanError)

Spec == Init /\ [][Next]_vars

\* one client changing directories, one change at a time
NextCd ==
    \/ \E userId \in {"", UserOf("s1")} : CreateSession("s1", userId)
    \/ \E data \in CdInputs :
          /\ HandleInput("s1", data, TRUE)
          /\ Len(pendingCd') <= MaxPendingCd
    \/ \E i \in 1..MaxPendingCd : CdDone(i)

SpecCd == Init /\ [][NextCd]_vars

\* one client submitting lines without waiting for the directory change to complete
NextRace ==
    \/ \E data \in RaceInputs, spawnOk \in BOOLEAN : HandleInput("s1", data, spawnOk)
    \/ \E i \in 1..MaxRacingCd : CdDone(i)
    \/ \E p \in 1..MaxProcs : ProcExit(p)
    \/ \E p \in 1..MaxProcs : OnExit(p)
    \/ TimerFire
    \/ \E i \in 1..MaxScans : ScanDone(i, ScanError)

SpecRace == Init /\ [][NextRace]_vars

\* no delayed scan waits and no enumeration command runs
ScansSettled == timers = <<>> /\ scans = <<>>

\* two clients whose commands print output. A port scan reads and writes no
\* session object and no process, so each scan is run to its end before the
\* next process event: the interleavings that differ only in when a scan
\* completes are left out.

NextOut ==
    \/ \E sid \in SocketIds : ScansSettled /\ HandleInput(sid, " ls -la\n", TRUE)
    \/ \E p \in 1..MaxProcs : ScansSettled /\ ProcProduce(p)
    \/ \E p \in 1..MaxProcs : ScansSettled /\ OnData(p)
    \/ \E p \in 1..MaxProcs : ScansSettled /\ ProcExit(p)
    \/ \E p \in 1..MaxProcs : ScansSettled /\ OnExit(p)
    \/ TimerFire
    \/ \E i \in 1..MaxScans : ScanDone(i, ScanError)

SpecOut == Init /\ [][NextOut]_vars

\* lines of the first of two clients that live side by side
IsoInputs == {"cd a", " ls -la\n"}

\* the processes of the client sid
ProcsOf(sid) == {p \in 1..Len(procs) : procs[p].sock = sid}

\* no scan, no delayed scan and no fs.access callback is outstanding
Settled == ScansSettled /\ pendingCd = <<>>

\* the second client has a command running
BystanderBusy == sessions["s2"] # NULL /\ objs[sessions["s2"]].pty # NULL

\* the client sid has not connected before
FirstVisit(sid) == \A o \in 1..Len(objs) : objs[o].sock # sid

\* two clients of two users, each connecting once. The second starts a command
\* that keeps running; the first performs every operation of the manager and
\* receives every callback. A callback of fs.access or of a scan is run before
\* the next operation.
NextIso ==
    \/ \E sid \in SocketIds : FirstVisit(sid) /\ CreateSession(sid, UserOf(sid))
    \/ Settled /\ HandleInput("s2", " ls -la\n", TRUE)
    \/ \E data \in IsoInputs :
          Settled /\ BystanderBusy /\ sessions["s1"] # NULL /\ HandleInput("s1", data, TRUE)
    \/ \E size \in Sizes : Settled /\ Resize("s1", size)
    \/ Settled /\ Kill("s1")
    \/ \E i \in 1..MaxRacingCd : CdDone(i)
    \/ \E p \in ProcsOf("s1") : Settled /\ ProcProduce(p)
    \/ \E p \in ProcsOf("s1") : Settled /\ OnData(p)
    \/ \E p \in ProcsOf("s1") : Settled /\ ProcExit(p)
    \/ \E p \in ProcsOf("s1") : Settled /\ OnExit(p)
    \/ TimerFire
    \/ \E i \in 1..MaxScans : ScanDone(i, ScanListing)

SpecIso == Init /\ [][NextIso]_vars

\* the user ids a client's session is requested with ("" is undefined)
UserIds == {"", UserOf("s1")}

\* one client whose session is requested again and again, with and without a
\* user id, while it changes directory, runs a command and is killed
NextCreate ==
    \/ \E userId \in UserIds : CreateSession("s1", userId)
    \/ \E data \in IsoInputs : Settled /\ HandleInput("s1", data, TRUE)
    \/ Settled /\ Kill("s1")
    \/ \E i \in 1..MaxRacingCd : CdDone(i)
    \/ \E p \in 1..MaxProcs : Settled /\ ProcExit(p)
    \/ \E p \in 1..MaxProcs : Settled /\ OnExit(p)
    \/ TimerFire
    \/ \E i \in 1..MaxScans : ScanDone(i, ScanError)

SpecCreate == Init /\ [][NextCreate]_vars

\* the listening ports the enumeration command may report
ScanPorts == {80, 1024, 1025, 3000, 3001, 5173}

PortText(port) ==
    CASE port = 80 -> "80" [] port = 1024 -> "1024" [] port = 1025 -> "1025"
      [] port = 3000 -> "3000" [] port = 3001 -> "3001" [] port = 5173 -> "5173"

\* the sequences over S of length at most n
SeqsUpTo(S, n) == UNION {[1..k -> S] : k \in 0..n}

\* the port lists of the netstat outputs: up to MaxLines sockets, and the four
\* sockets 80, 3000, 3001, 5173
PortLists == SeqsUpTo(ScanPorts, MaxLines) \cup {<<80, 3000, 3001, 5173>>}

\* netstat -ano -p tcp | findstr LISTENING: one line per listening socket
RECURSIVE Netstat(_)
Netstat(ports) ==
    IF ports = <<>> THEN ""
    ELSE " TCP 0.0.0.0:" \o PortText(Head(ports)) \o " 0.0.0.0:0 LISTENING 4\r\n"
         \o Netstat(Tail(ports))

Listing(ports) == [error |-> FALSE, stdout |-> Netstat(ports)]

\* one client whose commands trigger port scans that succeed or fail
NextScan ==
    \/ ScansSettled /\ HandleInput("s1", " ls -la\n", TRUE)
    \/ \E p \in 1..MaxProcs : ScansSettled /\ ProcExit(p)
    \/ \E p \in 1..MaxProcs : ScansSettled /\ OnExit(p)
    \/ TimerFire
    \/ \E i \in 1..MaxScans, ports \in PortLists : ScanDone(i, Listing(ports))
    \/ \E i \in 1..MaxScans : ScanDone(i, ScanError)

SpecScan == Init /\ [][NextScan]_vars

\* what a chunk with window titles is made of: the characters of the title
\* sequence, an ordinary character and a complete title sequence
Pieces == {ESC, "]0", ";", BEL, "x", ESC \o "]0;" \o BEL}

RECURSIVE Concat(_)
Concat(pieces) == IF pieces = <<>> THEN "" ELSE Head(pieces) \o Concat(Tail(pieces))

TitleChunks == {Concat(pieces) : pieces \in SeqsUpTo(Pieces, MaxPieces)}

\* the process writes a chunk with window titles after its first output was handled
ProcPrint(p) ==
    /\ p \in 1..Len(procs)
    /\ procs[p].state = "running"
    /\ Len(procs[p].produced) = 1 /\ procs[p].ndeliv = 1
    /\ \E chunk \in TitleChunks :
          Step([World EXCEPT !.procs[p].produced = Append(@, chunk)],
               [op |-> "produce", sid |-> procs[p].sock, data |-> chunk, proc |-> p])

\* one command whose process prints its greeting and then a chunk with titles
NextTitle ==
    \/ procs = <<>> /\ HandleInput("s1", " ls -la\n", TRUE)
    \/ ScansSettled /\ ProcProduce(1)
    \/ ScansSettled /\ ProcPrint(1)
    \/ OnData(1)
    \/ TimerFire
    \/ \E i \in 1..MaxScans : ScanDone(i, ScanError)

SpecTitle == Init /\ [][NextTitle]_vars

\* lines typed on an idle terminal: aliased and plain commands, an alias name
\* as an argument, a tab as the delimiter, a name every object inherits
AliasInputs ==
    {"ls -la", "cat  rm", "pwd", "echo ls", "type a.txt", "ls\t-la", "constructor x"}

\* one client that runs one command after the other
NextAlias ==
    \/ \E data \in AliasInputs : ScansSettled /\ procs = <<>> /\ HandleInput("s1", data, TRUE)
    \/ \E data \in AliasInputs, p \in 1..MaxProcs :
          /\ ScansSettled /\ Len(procs) = p /\ procs[p].state = "closed"
          /\ HandleInput("s1", data, TRUE)
    \/ \E p \in 1..MaxProcs : ScansSettled /\ ProcExit(p)
    \/ \E p \in 1..MaxProcs : ScansSettled /\ OnExit(p)
    \/ TimerFire
    \/ \E i \in 1..MaxScans : ScanDone(i, ScanError)

SpecAlias == Init /\ [][NextAlias]_vars

\* the storage service writes a manifest to disk
RestoreFile(path, file) ==
    Step([World EXCEPT !.files[path] = file],
         [op |-> "restoreFile", sid |-> "", data |-> path, proc |-> NULL])

ManifestFiles == {NoFile, LockedFile} \cup {TextFile(text) : text \in ManifestTexts}

NpmInputs == {"npm start", " npm start\n", "cd a"}

\* one terminal of the shared workspace running npm start beside manifests
\* that come and go
NextNpm ==
    \/ \E path \in ManifestPaths, file \in ManifestFiles :
          Settled /\ procs = <<>> /\ RestoreFile(path, file)
    \/ \E data \in NpmInputs, spawnOk \in BOOLEAN :
          Settled /\ HandleInput("s1", data, spawnOk)
    \/ \E i \in 1..MaxRacingCd : CdDone(i)
    \/ \E p \in 1..MaxProcs : Settled /\ ProcExit(p)
    \/ \E p \in 1..MaxProcs : Settled /\ OnExit(p)
    \/ TimerFire
    \/ \E i \in 1..MaxScans : ScanDone(i, ScanError)

SpecNpm == Init /\ [][NextNpm]_vars

\* directory changes by relative, quoted and absolute targets
PathInputs ==
    {"cd a", "cd b", "cd \"a/b\"", "cd ..", "cd ../bob2", "cd zz",
     "cd /tmp/teachgrid-workspace/bob/a", "cd /tmp/teachgrid-workspace/bob/zz"}

\* one client of a user changing directories, one change at a time
NextPath ==
    \/ CreateSession("s1", UserOf("s1"))
    \/ \E data \in PathInputs : pendingCd = <<>> /\ HandleInput("s1", data, TRUE)
    \/ \E i \in 1..MaxRacingCd : CdDone(i)

SpecPath == Init /\ [][NextPath]_vars

\* two clients running commands whose processes exit
NextLive ==
    \/ \E sid \in SocketIds, spawnOk \in BOOLEAN : HandleInput(sid, " ls -la\n", spawnOk)
    \/ \E p \in 1..MaxProcs : ProcExit(p)
    \/ \E p \in 1..MaxProcs : OnExit(p)
    \/ TimerFire
    \/ \E i \in 1..MaxScans : ScanDone(i, ScanError)

\* every spawned process eventually exits, and the event loop eventually runs
\* each callback that is due: exit, the timer and the end of a scan
Fairness ==
    /\ \A p \in 1..MaxProcs : WF_vars(ProcExit(p)) /\ WF_vars(OnExit(p))
    /\ WF_vars(TimerFire)
    /\ \A i \in 1..MaxScans : WF_vars(ScanDone(i, ScanError))

SpecLive == Init /\ [][NextLive]_vars /\ Fairness

\* lines for the built-ins and for a process: clear and its alias target, blank
\* and empty lines, a directory change, a command
BuiltinInputs == {"clear", " cls\n", " \t\r\n", "", "cd a", " ls -la\n"}

\* one client typing built-ins and commands
NextBuiltin ==
    \/ CreateSession("s1", "")
    \/ \E data \in BuiltinInputs, spawnOk \in BOOLEAN :
          pendingCd = <<>> /\ HandleInput("s1", data, spawnOk)
    \/ \E i \in 1..MaxRacingCd : CdDone(i)
    \/ \E p \in 1..MaxProcs : ProcExit(p)
    \/ \E p \in 1..MaxProcs : OnExit(p)
    \/ TimerFire
    \/ \E i \in 1..MaxScans : ScanDone(i, ScanError)

SpecBuiltin == Init /\ [][NextBuiltin]_vars

\* process.platform
Platforms == {"win32", "linux"}

\* the enumeration command of scanPorts
ScanCommand(platform) ==
    IF platform = "win32" THEN "netstat -ano -p tcp | findstr LISTENING" ELSE "ss -tlnp"

\* ss -tlnp: a header line and one line per listening socket
RECURSIVE SsLines(_)
SsLines(ports) ==
    IF ports = <<>> THEN ""
    ELSE "LISTEN 0 511 0.0.0.0:" \o PortText(Head(ports)) \o " 0.0.0.0:* users:((\"node\",pid=4,fd=21))\n"
         \o SsLines(Tail(ports))

SsOutput(ports) ==
    "State Recv-Q Send-Q Local Address:Port Peer Address:Port Process\n" \o SsLines(ports)

\* what the enumeration command of the platform prints for the listening sockets
ExecOutput(platform, ports) ==
    IF ScanCommand(platform) = "ss -tlnp" THEN SsOutput(ports) ELSE Netstat(ports)

\* one client whose scans run on either platform
NextPlatform ==
    \/ ScansSettled /\ HandleInput("s1", " ls -la\n", TRUE)
    \/ \E p \in 1..MaxProcs : ScansSettled /\ ProcExit(p)
    \/ \E p \in 1..MaxProcs : ScansSettled /\ OnExit(p)
    \/ TimerFire
    \/ \E i \in 1..MaxScans, platform \in Platforms, ports \in PortLists :
          ScanDone(i, [error |-> FALSE, stdout |-> ExecOutput(platform, ports)])

SpecPlatform == Init /\ [][NextPlatform]_vars

\* lines of a client whose session is killed and replaced while callbacks are due
StaleInputs == {"cd a", " ls -la\n"}

\* the registered session of sid has no fs.access callback due
NoCdDue(sid) == \A i \in 1..Len(pendingCd) : pendingCd[i].obj # sessions[sid]

\* the first session of the run is the only one so far
FirstSession == Len(objs) = 1

\* every chunk process p has printed was handled by onData
Flushed(p) == p \in 1..Len(procs) /\ procs[p].ndeliv = Len(procs[p].produced)

\* one client: its session is killed with a process running or a cd pending, a
\* new session is registered by the next line, and the callbacks of the old
\* session arrive late
NextStale ==
    \/ \E data \in StaleInputs : ScansSettled /\ NoCdDue("s1") /\ HandleInput("s1", data, TRUE)
    \/ ScansSettled /\ FirstSession /\ Kill("s1")
    \/ \E i \in 1..MaxRacingCd : ScansSettled /\ CdDone(i)
    \/ \E p \in 1..MaxProcs : ScansSettled /\ Flushed(p) /\ ProcProduce(p)
    \/ \E p \in 1..MaxProcs : ScansSettled /\ OnData(p)
    \/ \E p \in 1..MaxProcs : ScansSettled /\ ProcExit(p)
    \/ \E p \in 1..MaxProcs : ScansSettled /\ OnExit(p)
    \/ TimerFire
    \/ \E i \in 1..MaxScans : ScanDone(i, ScanError)

SpecStale == Init /\ [][NextStale]_vars

\* the public methods execute and write, called directly
Execute(sid, command, spawnOk) ==
    Step(DoExecute(World, sid, command, spawnOk),
         [op |-> "execute", sid |-> sid, data |-> command, proc |-> NULL])

Write(sid, data) ==
    Step(DoWrite(World, sid, data), [op |-> "write", sid |-> sid, data |-> data, proc |-> NULL])

\* one client and every public method of the manager, in any order
NextApi ==
    \/ CreateSession("s1", UserOf("s1"))
    \/ \E data \in Inputs : ScansSettled /\ HandleInput("s1", data, TRUE)
    \/ \E command \in Inputs, spawnOk \in BOOLEAN :
          ScansSettled /\ Execute("s1", command, spawnOk)
    \/ ScansSettled /\ Write("s1", "y\n")
    \/ \E size \in Sizes : ScansSettled /\ Resize("s1", size)
    \/ ScansSettled /\ Kill("s1")
    \/ \E p \in 1..MaxProcs : ScansSettled /\ ProcExit(p)
    \/ \E p \in 1..MaxProcs : ScansSettled /\ OnExit(p)
    \/ TimerFire
    \/ \E i \in 1..MaxScans : ScanDone(i, ScanError)

SpecApi == Init /\ [][NextApi]_vars

\* one client whose commands print their output chunk by chunk
NextFirst ==
    \/ ScansSettled /\ HandleInput("s1", " ls -la\n", TRUE)
    \/ \E p \in 1..MaxProcs : ScansSettled /\ ProcProduce(p)
    \/ \E p \in 1..MaxProcs : ScansSettled /\ OnData(p)
    \/ \E p \in 1..MaxProcs : ScansSettled /\ ProcExit(p)
    \/ \E p \in 1..MaxProcs : ScansSettled /\ OnExit(p)
    \/ TimerFire
    \/ \E i \in 1..MaxScans : ScanDone(i, ScanError)

SpecFirst == Init /\ [][NextFirst]_vars

\* one client whose delayed and exit-triggered scans run at the same time and
\* complete in either order; every enumeration command succeeds
NextFresh ==
    \/ HandleInput("s1", " ls -la\n", TRUE)
    \/ \E p \in 1..MaxProcs : ProcExit(p)
    \/ \E p \in 1..MaxProcs : OnExit(p)
    \/ TimerFire
    \/ \E i \in 1..MaxScans, ports \in PortLists : ScanDone(i, Listing(ports))

SpecFresh == Init /\ [][NextFresh]_vars

(***************************************************************************)
(* StorageService: the table workspace_files and the storage bucket.       *)
(* A row is keyed by (user_id, path); updated_at is left out.              *)
(***************************************************************************)
\* rows one user may hold in the model
MaxRows == 2

\* the SQL NULL of the content column (no stored text is this string)
SqlNull == "NULL"

\* first index >= i at which t occurs in s, 0 if none
RECURSIVE FindFrom(_, _, _)
FindFrom(s, t, i) ==
    IF i + Len(t) - 1 > Len(s) THEN 0
    ELSE IF Sub(s, i, i + Len(t) - 1) = t THEN i
    ELSE FindFrom(s, t, i + 1)

\* String.prototype.replace with a string pattern: the first occurrence only
StringReplace(s, old, new) ==
    LET i == FindFrom(s, old, 1) IN
    IF i = 0 THEN s ELSE Sub(s, 1, i - 1) \o new \o Sub(s, i + Len(old), Len(s))

\* SQL LIKE: % matches any string, _ any one character
RECURSIVE Like(_, _)
Like(s, pat) ==
    IF pat = "" THEN s = ""
    ELSE IF CharAt(pat, 1) = "%"
         THEN Like(s, Sub(pat, 2, Len(pat))) \/ (s # "" /\ Like(Sub(s, 2, Len(s)), pat))
    ELSE /\ s # ""
         /\ CharAt(pat, 1) \in {"_", CharAt(s, 1)}
         /\ Like(Sub(s, 2, Len(s)), Sub(pat, 2, Len(pat)))

\* .match({ user_id }).or(`path.eq.${p},path.like.${p}/%`)
Matches(r, userId, p) == r.user_id = userId /\ (r.path = p \/ Like(r.path, p \o "/%"))

\* upsert of a parent directory, onConflict (user_id, path): the columns given
\* are name and is_dir, so a row already there keeps its content
UpsertParent(t, userId, parentPath, parentName) ==
    IF \E r \in t : r.user_id = userId /\ r.path = parentPath
    THEN {IF r.user_id = userId /\ r.path = parentPath
          THEN [r EXCEPT !.name = parentName, !.is_dir = TRUE] ELSE r : r \in t}
    ELSE t \cup {[user_id |-> userId, path |-> parentPath, name |-> parentName,
                  content |-> SqlNull, is_dir |-> TRUE]}

\* upsert of a whole row, onConflict (user_id, path)
UpsertRow(t, row) ==
    {r \in t : ~(r.user_id = row.user_id /\ r.path = row.path)} \cup {row}

\* for (let i = 1; i < parts.length; i++) upsert parts.slice(0, i).join('/')
RECURSIVE SaveParents(_, _, _, _)
SaveParents(t, userId, parts, i) ==
    IF i >= Len(parts) THEN t
    ELSE SaveParents(UpsertParent(t, userId, Join(SubSeq(parts, 1, i), "/"), parts[i]),
                     userId, parts, i + 1)

\* storage upload with upsert: true
Upload(b, key, body) == {o \in b : o.key # key} \cup {[key |-> key, body |-> body]}

DoSaveFile(db, userId, filePath, name, content, isDir) ==
    IF userId = "" THEN db
    ELSE [table |->
              UpsertRow(IF IndexOf(filePath, "/", 1) # 0
                        THEN SaveParents(db.table, userId, Split(filePath, "/"), 1)
                        ELSE db.table,
                        [user_id |-> userId, path |-> filePath, name |-> name,
                         content |-> content, is_dir |-> isDir]),
          bucket |->
              IF isDir
              THEN Upload(db.bucket, userId \o "/" \o filePath \o "/.placeholder", "")
              ELSE IF content # SqlNull
                   THEN Upload(db.bucket, userId \o "/" \o filePath, content)
              ELSE db.bucket]

DoDeleteFile(db, userId, filePath) ==
    IF userId = "" THEN db
    ELSE [table |-> {r \in db.table : ~Matches(r, userId, filePath)},
          bucket |-> {o \in db.bucket : o.key # userId \o "/" \o filePath}]

\* subPath.split('/').pop()
LastPart(p) == Split(p, "/")[Len(Split(p, "/"))]

\* one turn of the loop of renameFile
RenameRow(db, userId, row, oldPath, newPath) ==
    LET subPath == StringReplace(row.path, oldPath, newPath)
        saved == DoSaveFile(db, userId, subPath, LastPart(subPath), row.content, row.is_dir)
    IN IF row.path # subPath THEN DoDeleteFile(saved, userId, row.path) ELSE saved

\* the loop over the rows selected, in the order the select returned them
RECURSIVE RenameRows(_, _, _, _, _)
RenameRows(db, userId, data, oldPath, newPath) ==
    IF data = <<>> THEN db
    ELSE RenameRows(RenameRow(db, userId, Head(data), oldPath, newPath),
                    userId, Tail(data), oldPath, newPath)

\* the orders in which a select without ORDER BY may return the rows S
Orders(S) ==
    {data \in [1..Cardinality(S) -> S] :
        \A i, j \in 1..Cardinality(S) : data[i] = data[j] => i = j}

Db == [table |-> table, bucket |-> bucket]

\* a step of the StorageService to db
StoreStep(db, op) ==
    /\ \A u \in {r.user_id : r \in db.table} :
           Cardinality({r \in db.table : r.user_id = u}) <= MaxRows
    /\ table' = db.table
    /\ bucket' = db.bucket
    /\ last' = op
    /\ emitted' = <<>>
    /\ calls' = <<>>
    /\ UNCHANGED <<sessions, objs, procs, pendingCd, timers, scans, dirs, files, client,
                   serial, latest>>

SaveFile(userId, filePath, content, isDir) ==
    StoreStep(DoSaveFile(Db, userId, filePath, LastPart(filePath), content, isDir),
              [op |-> "saveFile", sid |-> userId, data |-> filePath, proc |-> NULL,
               to |-> ""])

DeleteFile(userId, filePath) ==
    StoreStep(DoDeleteFile(Db, userId, filePath),
              [op |-> "deleteFile", sid |-> userId, data |-> filePath, proc |-> NULL,
               to |-> ""])

RenameFile(userId, oldPath, newPath) ==
    \E data \in Orders({r \in table : Matches(r, userId, oldPath)}) :
        StoreStep(IF userId = "" THEN Db ELSE RenameRows(Db, userId, data, oldPath, newPath),
                  [op |-> "renameFile", sid |-> userId, data |-> oldPath, proc |-> NULL,
                   to |-> newPath])

SavePaths == {"a", "a/x"}
RenameTo == {"b", "a/b"}
Saved == {[content |-> "one", isDir |-> FALSE], [content |-> SqlNull, isDir |-> TRUE]}

\* user u1 saving, deleting and renaming files and directories next to the
\* file of user u2
NextStore ==
    \/ \E filePath \in SavePaths, f \in Saved : SaveFile("u1", filePath, f.content, f.isDir)
    \/ SaveFile("u2", "a", "two", FALSE)
    \/ DeleteFile("u1", "a")
    \/ \E oldPath \in SavePaths, newPath \in RenameTo : RenameFile("u1", oldPath, newPath)

SpecStore == Init /\ [][NextStore]_vars

(***************************************************************************)
(* Properties.                                                             *)
(***************************************************************************)
\* path is root or lies below it by whole path segments
Nested(path, root) ==
    /\ Len(Segs(root)) <= Len(Segs(path))
    /\ SubSeq(Segs(path), 1, Len(Segs(root))) = Segs(root)

\* the number of segments of path below root
Depth(path, root) == Len(Segs(path)) - Len(Segs(root))

Denied(sid) == OutputEv(sid, DeniedMsg)

\* the session object handleInput works on in the step to the next state
SessionOf(sid) == objs[sessions[sid]]

\* the path.resolve call of a cd: the path the cd line resolved to
ResolveCall(newPath) == [fn |-> "path.resolve", proc |-> NULL, arg |-> newPath]

\* C1: in every reachable state the cwd of every session is its projectRoot or
\* a directory nested under projectRoot by whole path segments.
C1_SandboxInvariant ==
    \A sid \in SocketIds :
        sessions[sid] # NULL => Nested(SessionOf(sid).cwd, SessionOf(sid).projectRoot)

\* C2: a cd of an existing session whose resolved path does not start with
\* projectRoot emits exactly one access-denied notice and nothing else, leaves
\* every session object (cwd, process handle) unchanged, spawns nothing, and
\* calls nothing after path.resolve: no fs.access is started for the path.
C2_SandboxDenial ==
    [][\A i \in 1..Len(calls') :
          (/\ calls'[i].fn = "path.resolve"
           /\ sessions[last'.sid] # NULL
           /\ ~StartsWith(calls'[i].arg, SessionOf(last'.sid).projectRoot))
             => /\ emitted' = <<Denied(last'.sid)>>
                /\ calls' = <<ResolveCall(calls'[i].arg)>>
                /\ objs' = objs
                /\ sessions' = sessions
                /\ procs' = procs
                /\ pendingCd' = pendingCd
                /\ client'[last'.sid].cwd = client[last'.sid].cwd]_vars

\* a cd out of the sandbox was denied while the session sat below its root
C2_Witness ==
    /\ last.op = "handleInput"
    /\ last.data = "cd"
    /\ sessions[last.sid] # NULL
    /\ Depth(SessionOf(last.sid).cwd, SessionOf(last.sid).projectRoot) = 3
    /\ emitted = <<Denied(last.sid)>>
    /\ calls = <<ResolveCall(HomeDir)>>
    /\ pendingCd = <<>>

EtcInput == "cd ../../../etc"

\* C3 as stated: in every reachable session state the input cd ../../../etc
\* is answered by a denial notice and starts no directory change.
C3_EtcAlwaysDenied ==
    (last.op = "handleInput" /\ last.data = EtcInput)
        => /\ \E i \in 1..Len(emitted) : emitted[i] = Denied(last.sid)
           /\ \A i \in 1..Len(calls) : calls[i].fn # "fs.access"

\* C3 amended: while cwd has at most one path segment more than projectRoot
\* (projectRoot itself or a directory directly in it), the input
\* cd ../../../etc is answered by exactly one denial notice, changes no session
\* object and starts no fs.access.
C3_EtcDeniedNearRoot ==
    [][(/\ last'.op = "handleInput"
        /\ last'.data = EtcInput
        /\ sessions[last'.sid] # NULL
        /\ SessionOf(last'.sid).pty = NULL
        /\ Depth(SessionOf(last'.sid).cwd, SessionOf(last'.sid).projectRoot) <= 1)
       => /\ emitted' = <<Denied(last'.sid)>>
          /\ objs' = objs
          /\ pendingCd' = pendingCd
          /\ Len(calls') = 1
          /\ calls'[1].fn = "path.resolve"]_vars

\* cd ../../../etc was denied one level below the root
C3_Witness ==
    /\ last.op = "handleInput"
    /\ last.data = EtcInput
    /\ sessions[last.sid] # NULL
    /\ Depth(SessionOf(last.sid).cwd, SessionOf(last.sid).projectRoot) = 1
    /\ Nested(SessionOf(last.sid).cwd, SessionOf(last.sid).projectRoot)
    /\ emitted = <<Denied(last.sid)>>

\* C10: every command is executed against the cwd that results from all cd
\* commands dispatched to the session before it: a process is spawned in that
\* directory, and once no directory change is in flight the session's cwd is it.
C10_SerialCwd ==
    /\ \A i \in 1..Len(calls) :
          (calls[i].fn = "pty.spawn" /\ calls[i].proc # NULL)
              => procs[calls[i].proc].cwd = serial[procs[calls[i].proc].obj]
    /\ \A sid \in SocketIds :
          (sessions[sid] # NULL /\ \A i \in 1..Len(pendingCd) : pendingCd[i].sock # sid)
              => SessionOf(sid).cwd = serial[sessions[sid]]

\* the busy state the client of sid holds: the last terminal:status it received
Busy(sid) == client[sid].busy

\* C4: for every registered session the process handle is present exactly when
\* the busy state last announced to its client is true.
C4_BusyIdleExclusive ==
    \A sid \in SocketIds :
        sessions[sid] # NULL => ((SessionOf(sid).pty # NULL) <=> Busy(sid))

\* the processes of session object o that have not been detached by onExit
Live(o) == {p \in 1..Len(procs) : procs[p].obj = o /\ procs[p].state # "closed"}

\* C5: a spawn is attempted only for a session with no process attached, a
\* handle that is set changes only by the exit callback of its exited process,
\* and no session object ever has two processes that are not yet detached.
C5_SpawnOnlyWhenIdle ==
    /\ [](\A o \in 1..Len(objs) : Cardinality(Live(o)) <= 1)
    /\ [][/\ \A i \in 1..Len(calls') :
                (calls'[i].fn = "pty.spawn" /\ sessions[last'.sid] # NULL)
                    => SessionOf(last'.sid).pty = NULL
           /\ \A o \in 1..Len(objs) :
                (objs[o].pty # NULL /\ objs'[o].pty # objs[o].pty)
                    => /\ objs'[o].pty = NULL
                       /\ last'.op = "onExit"
                       /\ last'.proc = objs[o].pty
                       /\ procs[objs[o].pty].state = "exited"]_vars

\* a line dispatched to a busy session was written to its process, and no
\* second process was spawned
C5_Witness ==
    /\ last.op = "handleInput"
    /\ sessions[last.sid] # NULL
    /\ SessionOf(last.sid).pty # NULL
    /\ Trim(last.data) = "ls -la"
    /\ Len(calls) = 1
    /\ calls[1].fn = "pty.write"
    /\ Cardinality(Live(sessions[last.sid])) = 1

\* the input last' is dispatched to a session with a process attached
BusyDispatched ==
    /\ last'.op = "handleInput"
    /\ sessions[last'.sid] # NULL
    /\ SessionOf(last'.sid).pty # NULL

\* C6: input dispatched to a session with a process attached is written to
\* that process byte for byte, and nothing else happens: no notice, no spawn,
\* no directory change started, no session object changed.
C6_BusyForward ==
    [][BusyDispatched
       => /\ calls' = <<[fn |-> "pty.write", proc |-> SessionOf(last'.sid).pty,
                         arg |-> last'.data]>>
          /\ emitted' = <<>>
          /\ objs' = objs
          /\ sessions' = sessions
          /\ procs' = procs
          /\ pendingCd' = pendingCd
          /\ timers' = timers
          /\ scans' = scans
          /\ client' = client]_vars

\* the untrimmed line " ls -la\n" reached the input stream of the running process
C6_Witness ==
    /\ last.op = "handleInput"
    /\ last.data = " ls -la\n"
    /\ last.data # Trim(last.data)
    /\ sessions[last.sid] # NULL
    /\ SessionOf(last.sid).pty # NULL
    /\ calls = <<[fn |-> "pty.write", proc |-> SessionOf(last.sid).pty, arg |-> " ls -la\n"]>>
    /\ emitted = <<>>

\* C7: of the notifications emitted for one spawn, the first is busy-status
\* true, so it precedes every output chunk; and busy-status false is emitted
\* only in a step that starts with the process exited.
C7_StatusOrdering ==
    /\ [](\A p \in 1..Len(procs) :
             /\ procs[p].out # <<>>
             /\ procs[p].out[1] = StatusEv(procs[p].sock, TRUE)
             /\ \A i \in 2..Len(procs[p].out) :
                   procs[p].out[i] # StatusEv(procs[p].sock, TRUE))
    /\ [][\A p \in 1..Len(procs) :
             (/\ Len(procs'[p].out) > Len(procs[p].out)
              /\ \E i \in (Len(procs[p].out) + 1)..Len(procs'[p].out) :
                    procs'[p].out[i].ev = "terminal:status" /\ ~procs'[p].out[i].busy)
                 => procs[p].state = "exited"]_vars

\* a spawn announced busy, delivered output, and announced idle after the exit
C7_Witness ==
    \E p \in 1..Len(procs) :
        /\ procs[p].state = "closed"
        /\ Len(procs[p].out) >= 3
        /\ procs[p].out[1] = StatusEv(procs[p].sock, TRUE)
        /\ procs[p].out[2].ev = "output"
        /\ procs[p].out[Len(procs[p].out)] = StatusEv(procs[p].sock, FALSE)

\* the non-empty strings of s, in order
RECURSIVE SelectTexts(_)
SelectTexts(s) ==
    IF s = <<>> THEN <<>>
    ELSE IF Head(s) = "" THEN SelectTexts(Tail(s))
    ELSE <<Head(s)>> \o SelectTexts(Tail(s))

\* what the client must receive for the chunks a process produced so far and
\* onData has handled: each chunk filtered (the first as first output), in
\* order, the empty results dropped
ExpectedTexts(pr) ==
    SelectTexts([i \in 1..pr.ndeliv |-> FilterOutput(pr.produced[i], i > 1)])

\* the texts of the output events emitted for a process, in order
RECURSIVE OutputTexts(_)
OutputTexts(out) ==
    IF out = <<>> THEN <<>>
    ELSE IF Head(out).ev = "output" THEN <<Head(out).text>> \o OutputTexts(Tail(out))
    ELSE OutputTexts(Tail(out))

C9_Terminate ==
    [][last'.op = "kill"
       => /\ emitted' = <<>>
          /\ client' = client
          /\ objs' = objs
          /\ pendingCd' = pendingCd
          /\ timers' = timers
          /\ scans' = scans
          /\ IF sessions[last'.sid] = NULL
             THEN sessions' = sessions /\ procs' = procs /\ calls' = <<>>
             ELSE /\ sessions' = [sessions EXCEPT ![last'.sid] = NULL]
                  /\ IF SessionOf(last'.sid).pty = NULL
                     THEN procs' = procs /\ calls' = <<>>
                     ELSE /\ procs' = [procs EXCEPT ![SessionOf(last'.sid).pty].killed = TRUE]
                          /\ calls' = <<[fn |-> "pty.kill",
                                         proc |-> SessionOf(last'.sid).pty, arg |-> ""]>>]_vars

\* the one session ever created was killed with its process, and a later kill
\* of the same id found nothing to do
C9_Witness ==
    /\ last.op = "kill"
    /\ sessions[last.sid] = NULL
    /\ Len(objs) = 1
    /\ calls = <<>>
    /\ emitted = <<>>
    /\ \E p \in 1..Len(procs) : procs[p].killed /\ procs[p].obj = 1

\* C11: a step performed for one client id leaves the registry entry and the
\* session object (cwd, projectRoot, process handle, initialOutputReceived) of
\* every other registered client unchanged, emits nothing to that client and
\* so leaves what that client was told unchanged.
C11_Isolation ==
    [][\A b \in SocketIds :
          (b # last'.sid /\ sessions[b] # NULL)
             => /\ sessions'[b] = sessions[b]
                /\ objs'[sessions[b]] = objs[sessions[b]]
                /\ client'[b] = client[b]
                /\ \A i \in 1..Len(emitted') : emitted'[i].sock # b]_vars

\* output of the first client's process was delivered, after that client had
\* changed its directory, while the second client's command was running
C11_Witness ==
    /\ last.op = "onData"
    /\ last.sid = "s1"
    /\ emitted # <<>>
    /\ BystanderBusy
    /\ sessions["s1"] # NULL
    /\ SessionOf("s1").cwd # SessionOf("s1").projectRoot

\* C12: createSession for an id without a session allocates a new session
\* object with cwd = projectRoot, no process and initialOutputReceived false,
\* and emits exactly the one notification terminal:cwd ''; createSession for an
\* id that has a session, with any userId, changes no session object and no
\* registry entry, emits nothing and calls nothing.
C12_GetOrCreate ==
    [][last'.op = "createSession"
       => IF sessions[last'.sid] = NULL
          THEN /\ sessions'[last'.sid] = Len(objs) + 1
               /\ Len(objs') = Len(objs) + 1
               /\ \A o \in 1..Len(objs) : objs'[o] = objs[o]
               /\ objs'[Len(objs) + 1].cwd = objs'[Len(objs) + 1].projectRoot
               /\ objs'[Len(objs) + 1].pty = NULL
               /\ ~objs'[Len(objs) + 1].initialOutputReceived
               /\ emitted' = <<CwdEv(last'.sid, "")>>
          ELSE /\ sessions' = sessions
               /\ objs' = objs
               /\ procs' = procs
               /\ emitted' = <<>>
               /\ calls' = <<>>]_vars

\* a session created without a user id, now in a subdirectory with a command
\* running, was requested again with a user id
C12_Witness ==
    /\ last.op = "createSession"
    /\ last.data = UserOf("s1")
    /\ sessions["s1"] # NULL
    /\ SessionOf("s1").projectRoot = SessionRoot("")
    /\ SessionOf("s1").cwd # SessionOf("s1").projectRoot
    /\ SessionOf("s1").pty # NULL
    /\ emitted = <<>>

\* C13: two registered sessions of clients of different users have different
\* projectRoots, and the cwd of neither lies in the projectRoot subtree of
\* the other.
C13_ExclusiveRoots ==
    \A a, b \in SocketIds :
        (a # b /\ UserOf(a) # UserOf(b) /\ sessions[a] # NULL /\ sessions[b] # NULL)
            => /\ SessionOf(a).projectRoot # SessionOf(b).projectRoot
               /\ ~Nested(SessionOf(a).cwd, SessionOf(b).projectRoot)

\* the step to the next state is an input whose pty.spawn threw
FailedSpawn ==
    /\ last'.op = "handleInput"
    /\ \E i \in 1..Len(calls') : calls'[i].fn = "pty.spawn" /\ calls'[i].proc = NULL

\* C14: when pty.spawn throws, exactly one failure message is emitted (after
\* the initial terminal:cwd '' when the same input created the session), the
\* session is registered with no process handle, no terminal:status is
\* emitted, no process, timer or scan is added and no other session object
\* changes.
C14_SpawnFailure ==
    [][FailedSpawn
       => /\ sessions'[last'.sid] # NULL
          /\ objs'[sessions'[last'.sid]].pty = NULL
          /\ IF sessions[last'.sid] # NULL
             THEN /\ sessions' = sessions
                  /\ objs' = objs
                  /\ emitted' = <<OutputEv(last'.sid, SpawnFailMsg)>>
             ELSE emitted' = <<CwdEv(last'.sid, ""), OutputEv(last'.sid, SpawnFailMsg)>>
          /\ procs' = procs
          /\ timers' = timers
          /\ scans' = scans
          /\ pendingCd' = pendingCd
          /\ client'[last'.sid].busy = client[last'.sid].busy]_vars

\* a session that had run a command to its end failed to spawn the next one
\* and is idle
C14_Witness ==
    /\ last.op = "handleInput"
    /\ sessions[last.sid] # NULL
    /\ calls = <<[fn |-> "pty.spawn", proc |-> NULL, arg |-> "dir /b -la"]>>
    /\ emitted = <<OutputEv(last.sid, SpawnFailMsg)>>
    /\ SessionOf(last.sid).pty = NULL
    /\ ~client[last.sid].busy
    /\ \E p \in 1..Len(procs) : procs[p].obj = sessions[last.sid] /\ procs[p].state = "closed"

\* set of the elements of a sequence
Range(s) == {s[k] : k \in 1..Len(s)}

\* C15 (as stated): after the enumeration command fails, the client is sent the
\* empty port list and it replaces the list reported before.
C15_ScanFailureReportsEmpty ==
    last.op = "scanFailed"
    => /\ emitted = <<PortsEv(last.sid, <<>>)>>
       /\ client[last.sid].ports = <<>>

\* C16: a successful scan of a listing of sockets reports exactly the ports
\* above 1024 other than 3000 and 3001, each once.
C16_PortExclusion ==
    \A ports \in PortLists :
        (last.op = "scanDone" /\ last.data = Netstat(ports))
        => /\ Len(emitted) = 1
           /\ emitted[1].ev = "terminal:ports"
           /\ emitted[1].sock = last.sid
           /\ LET reported == emitted[1].ports
              IN  /\ Range(reported)
                     = {p \in Range(ports) : p > 1024 /\ p # 3000 /\ p # 3001}
                  /\ \A j, k \in 1..Len(reported) : reported[j] = reported[k] => j = k
                  /\ client[last.sid].ports = reported

\* C16 witness: the listing 80, 3000, 3001, 5173 was scanned and 5173 reported
C16_Witness ==
    /\ last.op = "scanDone"
    /\ last.data = Netstat(<<80, 3000, 3001, 5173>>)
    /\ emitted = <<PortsEv(last.sid, <<5173>>)>>

\* the threshold case: of 1024 and 1025 only 1025 is reported
C16_WitnessThreshold ==
    /\ last.op = "scanDone"
    /\ last.data = Netstat(<<1024, 1025>>)
    /\ emitted = <<PortsEv(last.sid, <<1025>>)>>

\* C17 (as stated): removing the window title sequences of a chunk twice gives
\* what removing them once gives, so one removal leaves no title sequence.
C17_StripIdempotent ==
    last.op = "onData" => StripTitle(StripTitle(last.data)) = StripTitle(last.data)

\* the same seen by the client: a later chunk is sent without any title sequence
C17_NoTitleSent ==
    (last.op = "onData" /\ emitted # <<>>) => StripTitle(emitted[1].text) = emitted[1].text

\* index of the first whitespace character of s at or after i, Len(s) + 1 if none
RECURSIVE TokenEnd(_, _)
TokenEnd(s, i) ==
    IF i > Len(s) \/ IsSpace(CharAt(s, i)) THEN i ELSE TokenEnd(s, i + 1)

AliasTable == {"ls", "dir", "ll", "cat", "rm", "clear", "pwd"}

\* the line the alias step is stated to give: the first whitespace-delimited
\* token replaced if it is a key of the table, the rest of the line unchanged
AliasStated(line) ==
    LET e == TokenEnd(line, 1)
        first == Sub(line, 1, e - 1)
    IN  IF first \in AliasTable THEN Aliases[first] \o Sub(line, e, Len(line)) ELSE line

\* C18 (as stated): the command started for a line typed on an idle terminal
\* is the line with its first token replaced when that token is an alias, and
\* the unchanged line otherwise.
C18_AliasResolution ==
    \A i \in 1..Len(calls) :
        (last.op = "handleInput" /\ calls[i].fn = "pty.spawn")
        => calls[i].arg = AliasStated(Trim(last.data))

\* the last step interpreted the line npm start and went on to spawn
NpmStepIn(l, c) ==
    /\ l.op = "handleInput" /\ Trim(l.data) = "npm start"
    /\ \E i \in 1..Len(c) : c[i].fn = "pty.spawn"

NpmStep == NpmStepIn(last, calls)

\* the manifest at the cwd of the session of the last step
ManifestIn(disk, cwd) == FileAt(disk, PathJoin(cwd, ManifestName, ""))

ManifestHere == ManifestIn(files, objs[sessions[last.sid]].cwd)

\* the manifest can be read and is an object with a scripts object
Parsed(file) ==
    /\ file.exists /\ file.readable
    /\ JsonParse(file.text).ok /\ JsonParse(file.text).hasScripts

\* the manifest has an entry for the script / a non-empty entry for it
Declares(file, name) == name \in DOMAIN JsonParse(file.text).scripts
DeclaresText(file, name) == Declares(file, name) /\ JsonParse(file.text).scripts[name] # ""

\* the command handed to pty.spawn by the last step
SpawnedIn(c, cmd) == \A i \in 1..Len(c) : c[i].fn = "pty.spawn" => c[i].arg = cmd

Spawned(cmd) == SpawnedIn(calls, cmd)

NoticeAt == {i \in 1..Len(emitted) : emitted[i] = OutputEv(last.sid, NpmNotice)}

\* exactly one notice, ahead of the status event or failure text of the spawn
OneNoticeFirst ==
    /\ Cardinality(NoticeAt) = 1
    /\ \A i \in NoticeAt, j \in 1..Len(emitted) :
          (emitted[j].ev = "terminal:status" \/ emitted[j].text = SpawnFailMsg) => i < j

\* C19 (as stated): npm start beside a manifest that declares dev and no start
\* runs npm run dev after one notice; beside a manifest that declares start,
\* or neither script, it runs npm start without a notice.
C19_RewriteDeclared ==
    (NpmStep /\ Parsed(ManifestHere))
    => IF Declares(ManifestHere, "dev") /\ ~Declares(ManifestHere, "start")
       THEN Spawned("npm run dev") /\ OneNoticeFirst
       ELSE Spawned("npm start") /\ NoticeAt = {}

\* C19 (amended): the same with a script counted only when its text is not
\* empty: npm start is redirected exactly when dev has a text and start has none.
C19_RewriteNonEmpty ==
    (NpmStep /\ Parsed(ManifestHere))
    => IF DeclaresText(ManifestHere, "dev") /\ ~DeclaresText(ManifestHere, "start")
       THEN Spawned("npm run dev") /\ OneNoticeFirst
       ELSE Spawned("npm start") /\ NoticeAt = {}

\* C19 witness: npm start beside the dev-only manifest was redirected
C19_Witness ==
    /\ NpmStep /\ ManifestHere = TextFile(DevOnlyText)
    /\ Spawned("npm run dev") /\ OneNoticeFirst
    /\ objs[sessions[last.sid]].pty # NULL

\* the manifest is missing, unreadable or not JSON
FailedManifest(file) == ~file.exists \/ ~file.readable \/ ~JsonParse(file.text).ok

\* C20: npm start beside a missing, unreadable or unparseable manifest spawns
\* npm start, emits only what the spawn emits, and changes nothing else.
C20_ManifestFailure ==
    [][(/\ NpmStepIn(last', calls')
        /\ FailedManifest(ManifestIn(files, objs'[sessions'[last'.sid]].cwd)))
       => /\ SpawnedIn(calls', "npm start")
          /\ emitted' \in
                {pre \o post :
                    pre \in {<<>>, <<CwdEv(last'.sid, "")>>},
                    post \in {<<StatusEv(last'.sid, TRUE)>>,
                              <<OutputEv(last'.sid, SpawnFailMsg)>>}}
          /\ files' = files /\ pendingCd' = pendingCd
          /\ sessions[last'.sid] # NULL
             => /\ sessions' = sessions
                /\ emitted'[1].ev # "terminal:cwd"
                /\ objs'[sessions[last'.sid]].cwd = objs[sessions[last'.sid]].cwd
                /\ objs'[sessions[last'.sid]].projectRoot
                   = objs[sessions[last'.sid]].projectRoot]_vars

\* C20 witness: npm start beside a manifest that is not JSON was spawned as is
C20_Witness ==
    /\ NpmStep /\ ManifestHere = TextFile(BrokenText)
    /\ Spawned("npm start")
    /\ emitted = <<StatusEv(last.sid, TRUE)>>

\* C21: when fs.access fails on a cd target inside the sandbox, the callback
\* emits the no-such-directory notice for the typed target and nothing else,
\* and changes no session and no process.
C21_PathNotFound ==
    [][(last'.op = "cdDone" /\ last'.data \notin dirs)
       => /\ \E i \in 1..Len(pendingCd) :
                /\ pendingCd[i].newPath = last'.data
                /\ pendingCd' = RemoveAt(pendingCd, i)
                /\ emitted' = <<OutputEv(last'.sid, NoSuchMsg(pendingCd[i].targetDir))>>
          /\ sessions' = sessions /\ objs' = objs /\ procs' = procs
          /\ calls' = <<>> /\ client' = client]_vars

\* C21 witness: cd a/b/c in the shared workspace, where only a/b exists
C21_Witness ==
    /\ last.op = "cdDone"
    /\ last.data = "/tmp/teachgrid-workspace/anonymous/a/b/c"
    /\ emitted = <<OutputEv("s1", NoSuchMsg("a/b/c"))>>
    /\ objs[sessions["s1"]].cwd = "/tmp/teachgrid-workspace/anonymous"

\* lit occurs in s
Contains(s, lit) == \E i \in 1..(Len(s) - Len(lit) + 1) : SubSeq(s, i, i + Len(lit) - 1) = lit

\* the last step belongs to a cd command: the line itself or its fs.access callback
CdStep == (last.op = "handleInput" /\ IsCd(Trim(last.data))) \/ last.op = "cdDone"

\* a completed cd to an accessible target moved the session there and sent one
\* working-directory notification with the path relative to projectRoot; no
\* step of a cd spawned a process
CdSuccess ==
    /\ (last.op = "cdDone" /\ last.data \in dirs)
       => /\ SessionOf(last.sid).cwd = last.data
          /\ Len(emitted) = 1
          /\ emitted[1].ev = "terminal:cwd" /\ emitted[1].sock = last.sid
          /\ ~StartsWith(emitted[1].text, "/")
          /\ (last.data = SessionOf(last.sid).projectRoot) <=> (emitted[1].text = "")
          /\ PathResolve(SessionOf(last.sid).projectRoot, emitted[1].text) = last.data
    /\ CdStep => (procs = <<>> /\ \A i \in 1..Len(calls) : calls[i].fn # "pty.spawn")

\* C22 (as stated): a successful cd sets cwd and notifies the relative path,
\* and nothing a cd emits contains the absolute projectRoot.
C22_NeverAbsolute ==
    /\ CdSuccess
    /\ CdStep => \A i \in 1..Len(emitted) :
                    ~Contains(emitted[i].text, SessionOf(last.sid).projectRoot)

\* C22 (amended): the same, except that the no-such-directory notice repeats
\* the target as the client typed it, absolute projectRoot included.
C22_AbsoluteOnlyEchoed ==
    /\ CdSuccess
    /\ CdStep => \A i \in 1..Len(emitted) :
                    Contains(emitted[i].text, SessionOf(last.sid).projectRoot)
                    => \E data \in PathInputs :
                          /\ Contains(data, SessionOf(last.sid).projectRoot)
                          /\ emitted[i] = OutputEv(last.sid, NoSuchMsg(CdTarget(data)))

\* C22 witness: cd "a/b" from the root arrived at a/b and notified a/b
C22_Witness ==
    /\ last.op = "cdDone"
    /\ SessionOf("s1").cwd = "/tmp/teachgrid-workspace/bob/a/b"
    /\ emitted = <<CwdEv("s1", "a/b")>>

\* the session of sid has a process attached / is registered with none attached
BusySession(sid) == sessions[sid] # NULL /\ SessionOf(sid).pty # NULL
IdleSession(sid) == sessions[sid] # NULL /\ SessionOf(sid).pty = NULL

\* C23: the exit callback of a process detaches the handle of its session,
\* emits one busy-status false notification and starts one port scan; and with
\* every process exiting eventually, a busy session becomes idle again.
C23_ReturnToIdle ==
    /\ [][last'.op = "onExit"
          => /\ objs[procs[last'.proc].obj].pty = last'.proc
             /\ objs'[procs[last'.proc].obj].pty = NULL
             /\ emitted' = <<StatusEv(last'.sid, FALSE)>>
             /\ scans' = Append(scans, [sock |-> last'.sid])
             /\ timers' = timers]_vars
    /\ \A sid \in SocketIds : BusySession(sid) ~> IdleSession(sid)

\* C23 witness: the second command of the session has exited and the session
\* is idle again
C23_Witness ==
    /\ last.op = "onExit" /\ last.proc = 2
    /\ IdleSession("s1")
    /\ emitted = <<StatusEv("s1", FALSE)>>

\* the step made a successful pty.spawn
SpawnedOk(c) == \E i \in 1..Len(c) : c[i].fn = "pty.spawn" /\ c[i].proc # NULL

\* C24: a line schedules one delayed scan exactly when it spawns a process
\* (not for cd, clear, cls, an empty line or a failed spawn); the timer starts
\* its scan whatever the state of the process, and the exit callback starts its
\* own scan without cancelling the timer.
C24_DelayedScan ==
    [][/\ last'.op = "handleInput"
          => /\ scans' = scans
             /\ timers' = IF SpawnedOk(calls') THEN Append(timers, last'.sid) ELSE timers
       /\ last'.op = "timer"
          => /\ timers' = Tail(timers)
             /\ scans' = Append(scans, [sock |-> Head(timers)])
       /\ last'.op = "onExit"
          => /\ timers' = timers
             /\ scans' = Append(scans, [sock |-> last'.sid])
       /\ last'.op \in {"exit", "cdDone", "createSession"}
          => timers' = timers /\ scans' = scans]_vars

\* C24 witness: the delayed scan of a command starts after its process has gone
C24_Witness ==
    /\ last.op = "timer"
    /\ scans = <<[sock |-> "s1"]>>
    /\ procs # <<>> /\ procs[Len(procs)].state = "exited"

\* C26: on an idle session the lines clear and cls emit the clear sequence once
\* as output and nothing else, and a blank line emits nothing; neither spawns,
\* announces a status or changes the session.
C26_BuiltinClear ==
    [][(/\ last'.op = "handleInput"
        /\ sessions[last'.sid] # NULL
        /\ objs[sessions[last'.sid]].pty = NULL
        /\ Trim(last'.data) \in {"clear", "cls", ""})
       => /\ emitted' = IF Trim(last'.data) = "" THEN <<>>
                        ELSE <<OutputEv(last'.sid, ESC \o "[2J" \o ESC \o "[0f")>>
          /\ calls' = <<>>
          /\ sessions' = sessions /\ objs' = objs /\ procs' = procs
          /\ timers' = timers /\ scans' = scans /\ pendingCd' = pendingCd
          /\ client' = client]_vars

\* C26 witness: cls typed on an idle session that has run a command before
C26_Witness ==
    /\ last.op = "handleInput" /\ last.data = " cls\n"
    /\ emitted = <<OutputEv("s1", ClearSeq)>>
    /\ procs # <<>> /\ \A p \in 1..Len(procs) : procs[p].state = "closed"
    /\ IdleSession("s1")

\* the output events for a cleaned chunk: none when it is empty
Forwarded(sid, cleaned) == IF cleaned = "" THEN <<>> ELSE <<OutputEv(sid, cleaned)>>

\* C25: a successful spawn resets initialOutputReceived; the first chunk a
\* process delivers sets it, forwarded or not, and is stripped of banner,
\* titles, prompt paths and leading whitespace; every later chunk of the
\* process is forwarded with its title sequences removed and nothing else.
C25_FirstChunk ==
    [][/\ (last'.op = "handleInput" /\ SpawnedOk(calls'))
          => ~objs'[sessions'[last'.sid]].initialOutputReceived
       /\ last'.op = "onData"
          => /\ objs[procs[last'.proc].obj].initialOutputReceived
                <=> (procs[last'.proc].ndeliv > 0)
             /\ objs'[procs[last'.proc].obj].initialOutputReceived
             /\ emitted' = Forwarded(last'.sid,
                                     IF procs[last'.proc].ndeliv = 0
                                     THEN StripTitle(StripFirst(last'.data))
                                     ELSE StripTitle(last'.data))]_vars

\* C25 witness: the second command of a session had its banner chunk dropped
\* and its next chunk, which holds a prompt path, forwarded with the path kept
C25_Witness ==
    /\ last.op = "onData" /\ last.proc > 1
    /\ procs[last.proc].sock = "s1" /\ procs[1].sock = "s1" /\ procs[1].ndeliv > 0
    /\ procs[last.proc].ndeliv = 2
    /\ emitted = <<OutputEv("s1", " C:\\ws>a.txt\r\n")>>

\* C27 (as stated): on each platform every listening socket the enumeration
\* command prints has its port parsed, so each listening port above 1024 other
\* than 3000 and 3001 is in the reported list.
C27_PortParsing ==
    \A platform \in Platforms, ports \in PortLists :
        (last.op = "scanDone" /\ last.data = ExecOutput(platform, ports))
        => /\ Len(emitted) = 1
           /\ emitted[1].ev = "terminal:ports"
           /\ \A k \in 1..Len(ports) :
                 (ports[k] > 1024 /\ ports[k] # 3000 /\ ports[k] # 3001)
                 => ports[k] \in Range(emitted[1].ports)

\* C28 (as stated): once kill has removed a session nothing that comes from it
\* is emitted: an event from a callback of a process belongs to the session
\* still registered for its client, and a port list or a working-directory
\* notification is sent only to a client with a registered session.
C28_Quiescence ==
    emitted # <<>>
    => /\ last.op \in {"onData", "onExit"} => sessions[last.sid] = procs[last.proc].obj
       /\ last.op \in {"scanDone", "cdDone"} => sessions[last.sid] # NULL

\* every registered session object other than o is left as it is by the step
OthersKept(o) ==
    \A sid \in SocketIds :
        (sessions[sid] # NULL /\ sessions[sid] # o)
        => /\ sessions'[sid] = sessions[sid]
           /\ objs'[sessions[sid]] = objs[sessions[sid]]

\* C29: a data or exit callback of a process and the completion of a cd change
\* only the session object they were created for, so after a kill they leave
\* the cwd, handle and flag of the session registered next under the same id
\* untouched.
C29_StaleCallbacks ==
    [][/\ last'.op \in {"onData", "onExit"} => OthersKept(procs[last'.proc].obj)
       /\ last'.op = "cdDone"
          => \E i \in 1..Len(pendingCd) :
                /\ pendingCd' = RemoveAt(pendingCd, i)
                /\ pendingCd[i].newPath = last'.data
                /\ OthersKept(pendingCd[i].obj)]_vars

\* C29 witness: the process of the killed session exits late, while the process
\* of the session registered after it is running and stays attached
C29_Witness ==
    /\ last.op = "onExit"
    /\ sessions["s1"] # NULL
    /\ procs[last.proc].obj # sessions["s1"]
    /\ SessionOf("s1").pty # NULL
    /\ procs[SessionOf("s1").pty].state = "running"

\* C30 (as stated): a process that was spawned for a session still registered
\* and has not exited is the process the handle of that session refers to.
C30_NoOrphan ==
    \A p \in 1..Len(procs) :
        (procs[p].state = "running" /\ sessions[procs[p].sock] = procs[p].obj)
        => objs[procs[p].obj].pty = p

\* C31: port list freshness. Once no scan of a client is in flight and the scan
\* started last for it succeeded, the port list the client holds is the list
\* that scan sent, whatever the order in which overlapping scans completed.
ScansInFlight(sid) == {i \in 1..Len(scans) : scans[i].sock = sid}

C31_PortListFresh ==
    \A sid \in SocketIds :
        (ScansInFlight(sid) = {} /\ latest[sid].done /\ latest[sid].ok)
            => client[sid].ports = latest[sid].ports

\* C32: rename preserves content. After renameFile(userId, oldPath, newPath)
\* with newPath # oldPath, every row the user held at oldPath or below it is in
\* the table at the corresponding path under newPath with the same content and
\* directory flag, and the rows of other users are unchanged.
PathUnder(path, oldPath, newPath) == newPath \o Sub(path, Len(oldPath) + 1, Len(path))

Below(r, userId, oldPath) ==
    r.user_id = userId /\ (r.path = oldPath \/ StartsWith(r.path, oldPath \o "/"))

Preserved(before, after, userId, oldPath, newPath) ==
    \A r \in before :
        Below(r, userId, oldPath)
            => \E moved \in after :
                   /\ moved.user_id = userId
                   /\ moved.path = PathUnder(r.path, oldPath, newPath)
                   /\ moved.content = r.content
                   /\ moved.is_dir = r.is_dir

OthersUnchanged(before, after, userId) ==
    {r \in after : r.user_id # userId} = {r \in before : r.user_id # userId}

C32_RenamePreserves ==
    [][last'.op = "renameFile"
          => /\ Preserved(table, table', last'.sid, last'.data, last'.to)
             /\ OthersUnchanged(table, table', last'.sid)]_vars

====
